---- MODULE Spec2Model ----
(***************************************************************************)
(* Dual-store telemetry ingestion engine (kunalbagul88/ingestion-engine).  *)
(*                                                                         *)
(* Tables are sets of rows.  Time is counted in hours; a calendar day has  *)
(* HoursPerDay hours.  Energy values are small naturals.  The columns      *)
(* filled by NOW() (createdAt, updatedAt, ingestedAt) are not modelled;    *)
(* the order of the generated ids stands for the order of ingestion.       *)
(*                                                                         *)
(* Specifications:                                                         *)
(*   Spec       two concurrent callers of the single-reading and mapping   *)
(*              handlers; every handler is split at its awaits and every   *)
(*              storage call may throw                                     *)
(*   SpecBatch  ingestBatch calls one after the other, split at their       *)
(*              awaits; storage calls may throw                            *)
(*   SpecRace   some readings ingested one after the other, then two       *)
(*              concurrent ingests for one device                          *)
(*   SpecSeq    one caller, no storage fault: every ingest runs to its end *)
(*              in one step                                                *)
(*   SpecScan   ingests and mapping calls one after the other, then        *)
(*              getPerformance                                             *)
(*   SpecPerm   readings ingested one after the other under fixed links,   *)
(*              compared with every other order of the same readings       *)
(*   SpecStatus ingests, then getMeterStatus / getVehicleStatus at         *)
(*              instants in milliseconds                                   *)
(*   SpecSummary ingests and mapping calls, then getPerformance with the   *)
(*              response it builds                                         *)
(*   SpecFleet  ingests and mapping calls, then getFleetEfficiency         *)
(*   SpecTrend  ingests and a mapping call, then getEfficiencyTrend; time  *)
(*              in half hours                                              *)
(*   SpecPost   POST /v1/telemetry requests through the validation pipe    *)
(*   SpecOnline ingests of two meters, then getOnlineMeters                *)
(*   SpecLink   a reading and a link set beforehand, then two concurrent   *)
(*              callers of the ingest and mapping handlers                 *)
(*   SpecClass  readings of every classification, one after the other      *)
(*   SpecCharging ingests, then getChargingVehicles                        *)
(*   SpecOverview getFleetOverview split at its queries, with ingests      *)
(*              between them                                               *)
(*   SpecCommute earlier readings and a link, then two concurrent ingests  *)
(*              for two different devices                                  *)
(***************************************************************************)
EXTENDS Integers, Sequences, FiniteSets, TLC

----------------------------------------------------------------------------
(* Bounds                                                                  *)

HoursPerDay == 3
MaxCalls == 2
MaxBatchCalls == 1
MaxBatch == 2
MaxPrior == 1
MaxSeqReadings == 4
MaxScanReadings == 3
MaxPermReadings == 3
MaxStatusReadings == 2
MaxSummaryReadings == 2
MaxFleetReadings == 4
MaxTrendReadings == 3
MaxPosts == 3

(* Program constants *)
BATTERY_TEMP_WARNING == 45

----------------------------------------------------------------------------
(* Input domains                                                           *)

Null == "null"

Procs == {1, 2}
Meters == {"M1", "M2"}
Vehicles == {"V1", "V2"}
Timestamps == 0..HoursPerDay
KwhValues == {0, 1, 2}
Voltages == {240, 241}
Socs == {50}
BatteryTemps == {30, 45}

MeterDtos ==
  [type : {"meter"}, meterId : Meters, kwhConsumedAc : KwhValues,
   voltage : Voltages, timestamp : Timestamps]

VehicleDtos ==
  [type : {"vehicle"}, vehicleId : Vehicles, soc : Socs,
   kwhDeliveredDc : KwhValues, batteryTemp : BatteryTemps,
   timestamp : Timestamps]

(* The readings of the concurrent specifications: one meter and one        *)
(* vehicle, three hours of one day.                                        *)
ConcMeterDtos ==
  {d \in MeterDtos : /\ d.meterId = "M1" /\ d.voltage = 240
                     /\ d.kwhConsumedAc \in {1, 2} /\ d.timestamp \in {0, 1, 2}}

ConcVehicleDtos ==
  {d \in VehicleDtos : /\ d.vehicleId = "V1" /\ d.batteryTemp = 30
                       /\ d.kwhDeliveredDc \in {1, 2} /\ d.timestamp \in {0, 1, 2}}

ConcPairs == {<<"M1", "V1">>}

(* The readings of SpecSeq: one meter and one vehicle, the first two hours *)
(* of a day and the first hour of the next day; a meter reports 240 V with *)
(* energy value 1 and 241 V with energy value 2.                           *)
SeqTimestamps == {0, 1, HoursPerDay}

SeqMeterDtos ==
  {d \in MeterDtos : /\ d.meterId = "M1" /\ d.kwhConsumedAc \in {1, 2}
                     /\ d.voltage = 239 + d.kwhConsumedAc
                     /\ d.timestamp \in SeqTimestamps}

SeqVehicleDtos ==
  {d \in VehicleDtos : /\ d.vehicleId = "V1" /\ d.batteryTemp = 30
                       /\ d.kwhDeliveredDc \in {1, 2}
                       /\ d.timestamp \in SeqTimestamps}

(* The readings of SpecScan: vehicle V1 at every hour, with energy value 1 *)
(* at the even hours and 2 at the odd ones, vehicle V2 and meter M1 in the *)
(* first hours.                                                            *)
ScanHours == {0, 1, 2, 3}

(* The hours query parameter of getPerformance *)
WindowHours == {1, 2}

ScanVehicleDtos ==
  {d \in VehicleDtos : /\ d.batteryTemp = 30
                       /\ d.timestamp \in ScanHours
                       /\ (d.vehicleId = "V1" => d.kwhDeliveredDc = 1 + (d.timestamp % 2))
                       /\ (d.vehicleId = "V2" => d.kwhDeliveredDc = 1 /\ d.timestamp = 1)}

ScanMeterDtos ==
  {d \in MeterDtos : /\ d.meterId = "M1" /\ d.voltage = 240
                     /\ d.kwhConsumedAc = 1 /\ d.timestamp \in {0, 1}}

(* The readings and links of SpecPerm *)
PermDtos ==
  {d \in MeterDtos : /\ d.meterId = "M1" /\ d.voltage = 240
                     /\ d.timestamp \in {0, 1}
                     /\ d.kwhConsumedAc = 1 + d.timestamp}
  \cup
  {d \in VehicleDtos : /\ d.vehicleId = "V1" /\ d.batteryTemp = 30
                       /\ d.kwhDeliveredDc = 1 /\ d.timestamp \in {0, 1}}

(* The hours at which SpecPerm asks for the window of one hour: the        *)
(* windows cut the hours 0 and 1 of the readings in every way              *)
PermHours == {0, 1, 2}

PermPairs == {<<"M1", "V1">>, <<"M1", "V2">>}

(* The readings of SpecStatus: M1 and V1 at the hours 0 and 1; a vehicle   *)
(* reading with energy value 0 is stored as idle, one with 1 as charging.  *)
StatusDtos ==
  {d \in MeterDtos : /\ d.meterId = "M1" /\ d.voltage = 240
                     /\ d.kwhConsumedAc = 1 /\ d.timestamp \in {0, 1}}
  \cup
  {d \in VehicleDtos : /\ d.vehicleId = "V1" /\ d.batteryTemp = 30
                       /\ d.kwhDeliveredDc \in {0, 1} /\ d.timestamp \in {0, 1}}

(* A numeric field that the caller left out (undefined) *)
Missing == 0 - 1

(* The readings a batch is made of; ingestBatch takes its elements as they *)
(* come, so one of them lacks its energy field.                            *)
BatchDtos ==
  {d \in ConcMeterDtos \cup ConcVehicleDtos :
     d.timestamp = 0 /\ (d.type = "meter" => d.kwhConsumedAc = 1)
                     /\ (d.type = "vehicle" => d.kwhDeliveredDc = 1)}
  \cup {[type |-> "meter", meterId |-> "M1", kwhConsumedAc |-> Missing,
          voltage |-> 240, timestamp |-> 0]}

RECURSIVE SeqsUpTo(_, _)
SeqsUpTo(S, n) ==
  IF n = 0 THEN {<<>>}
  ELSE LET shorter == SeqsUpTo(S, n - 1)
       IN  shorter \cup {Append(q, x) : q \in {t \in shorter : Len(t) = n - 1}, x \in S}

Batches == SeqsUpTo(BatchDtos, MaxBatch) \ {<<>>}

----------------------------------------------------------------------------
(* State                                                                   *)

VARIABLES
  meterHistory,     \* meter_telemetry_history
  vehicleHistory,   \* vehicle_telemetry_history
  meterStatus,      \* meter_current_status
  vehicleStatus,    \* vehicle_current_status
  deviceMapping,    \* device_mapping
  nextId,           \* next generated history id
  call,             \* per caller: the handler it runs and where it stands
  calls,            \* number of handler calls started so far
  perf,             \* the answer of the last read call (analytics, status)
  done,             \* history: ids of the history rows whose ingest returned
  okCount,          \* history: per device, the ingests that returned
  base              \* history: the tables when the concurrent ingests began

vars == <<meterHistory, vehicleHistory, meterStatus, vehicleStatus,
          deviceMapping, nextId, call, calls, perf, done, okCount, base>>

tables == <<meterHistory, vehicleHistory, meterStatus, vehicleStatus,
            deviceMapping, nextId>>

history == <<done, okCount, base>>

----------------------------------------------------------------------------
(* Pure helpers                                                            *)

(* DATE(ts) of the upsert statements *)
Date(ts) == ts \div HoursPerDay

HistoryIds == {r.id : r \in meterHistory} \cup {r.id : r \in vehicleHistory}

MeterRows(mh, m) == {r \in mh : r.meterId = m}

VehicleRows(vh, v) == {r \in vh : r.vehicleId = v}

Max2(a, b) == IF a >= b THEN a ELSE b

(* deviceMappingRepo.findOne({where: {meterId, isActive: true}}): any one  *)
(* of the matching rows (no ORDER BY), or no row                           *)
FindActiveByMeter(dm, m) ==
  LET rows == {x \in dm : x.meterId = m /\ x.isActive}
  IN  IF rows = {} THEN {Null} ELSE {x.vehicleId : x \in rows}

(* as FindActiveByVehicle, but a deactivated link still counts *)
FindActiveByVehicle_AnyLink(dm, v) ==
  LET rows == {x \in dm : x.vehicleId = v}
  IN  IF rows = {} THEN {Null} ELSE {x.meterId : x \in rows}

FindActiveByVehicle(dm, v) ==
  LET rows == {x \in dm : x.vehicleId = v /\ x.isActive}
  IN  IF rows = {} THEN {Null} ELSE {x.meterId : x \in rows}

(* meterHistoryRepo.create + insert *)
MeterHistoryEntry(id, dto, vehicleId) ==
  [id |-> id, meterId |-> dto.meterId, kwhConsumedAc |-> dto.kwhConsumedAc,
   voltage |-> dto.voltage, timestamp |-> dto.timestamp,
   vehicleId |-> vehicleId]

VehicleHistoryEntry(id, dto, meterId) ==
  [id |-> id, vehicleId |-> dto.vehicleId, soc |-> dto.soc,
   kwhDeliveredDc |-> dto.kwhDeliveredDc, batteryTemp |-> dto.batteryTemp,
   timestamp |-> dto.timestamp, meterId |-> meterId]

(* as InsertRow, but a row older than a row of the table is dropped *)
InsertRow_DropLate(table, row) ==
  IF \E r \in table : r.timestamp > row.timestamp THEN table ELSE table \cup {row}

(* as InsertRow, but a row with the timestamp of an earlier row takes its  *)
(* place                                                                   *)
InsertRow_OverwriteSameTimestamp(table, row) ==
  {r \in table : r.timestamp # row.timestamp} \cup {row}

InsertRow(table, row) == table \cup {row}

(* as SecondLatestKwh, but the subquery has no WHERE "meterId" = $1 *)
SecondLatestKwh_AnyMeter(mh, m, dflt) ==
  LET rows == mh
      second == {r \in rows :
                   /\ Cardinality({s \in rows : s.timestamp > r.timestamp}) <= 1
                   /\ Cardinality({s \in rows : s.timestamp >= r.timestamp}) >= 2}
  IN  IF second = {} THEN {dflt} ELSE {r.kwhConsumedAc : r \in second}

(* COALESCE((SELECT "kwhConsumedAc" FROM meter_telemetry_history WHERE     *)
(* "meterId" = $1 ORDER BY timestamp DESC LIMIT 1 OFFSET 1), $2): the      *)
(* values the subquery can yield; rows with equal timestamps come in any   *)
(* order                                                                   *)
SecondLatestKwh(mh, m, dflt) ==
  LET rows == {r \in mh : r.meterId = m}
      second == {r \in rows :
                   /\ Cardinality({s \in rows : s.timestamp > r.timestamp}) <= 1
                   /\ Cardinality({s \in rows : s.timestamp >= r.timestamp}) >= 2}
  IN  IF second = {} THEN {dflt} ELSE {r.kwhConsumedAc : r \in second}

(* as UpsertMeterStatus, but an older reading does not move lastReadingAt  *)
(* back                                                                    *)
UpsertMeterStatus_KeepNewestTimestamp(ms, dto, vehicleId, prev) ==
  LET conflict == {r \in ms : r.meterId = dto.meterId}
  IN  IF conflict = {}
      THEN ms \cup {[meterId |-> dto.meterId,
                     kwhConsumedAc |-> dto.kwhConsumedAc,
                     voltage |-> dto.voltage,
                     lastReadingAt |-> dto.timestamp,
                     dailyKwhConsumedAc |-> dto.kwhConsumedAc,
                     vehicleId |-> vehicleId,
                     status |-> "online"]}
      ELSE (ms \ conflict) \cup
           {[r EXCEPT
               !.kwhConsumedAc = dto.kwhConsumedAc,
               !.voltage = dto.voltage,
               !.lastReadingAt = Max2(dto.timestamp, r.lastReadingAt),
               !.dailyKwhConsumedAc =
                  r.dailyKwhConsumedAc +
                  (IF Date(dto.timestamp) > Date(r.lastReadingAt)
                   THEN dto.kwhConsumedAc
                   ELSE dto.kwhConsumedAc - prev),
               !.vehicleId = IF vehicleId # Null THEN vehicleId ELSE r.vehicleId,
               !.status = "online"] : r \in conflict}

(* as UpsertMeterStatus, without the ON CONFLICT clause and the key it     *)
(* rests on                                                                *)
UpsertMeterStatus_NoConflictKey(ms, dto, vehicleId, prev) ==
  ms \cup {[meterId |-> dto.meterId,
            kwhConsumedAc |-> dto.kwhConsumedAc,
            voltage |-> dto.voltage,
            lastReadingAt |-> dto.timestamp,
            dailyKwhConsumedAc |-> dto.kwhConsumedAc,
            vehicleId |-> vehicleId,
            status |-> "online"]}

(* as UpsertMeterStatus, with "vehicleId" = $5 in place of COALESCE($5,    *)
(* stored)                                                                 *)
UpsertMeterStatus_NoCoalesce(ms, dto, vehicleId, prev) ==
  LET conflict == {r \in ms : r.meterId = dto.meterId}
  IN  IF conflict = {}
      THEN ms \cup {[meterId |-> dto.meterId,
                     kwhConsumedAc |-> dto.kwhConsumedAc,
                     voltage |-> dto.voltage,
                     lastReadingAt |-> dto.timestamp,
                     dailyKwhConsumedAc |-> dto.kwhConsumedAc,
                     vehicleId |-> vehicleId,
                     status |-> "online"]}
      ELSE (ms \ conflict) \cup
           {[r EXCEPT
               !.kwhConsumedAc = dto.kwhConsumedAc,
               !.voltage = dto.voltage,
               !.lastReadingAt = dto.timestamp,
               !.dailyKwhConsumedAc =
                  r.dailyKwhConsumedAc +
                  (IF Date(dto.timestamp) > Date(r.lastReadingAt)
                   THEN dto.kwhConsumedAc
                   ELSE dto.kwhConsumedAc - prev),
               !.vehicleId = vehicleId,
               !.status = "online"] : r \in conflict}

(* INSERT INTO meter_current_status ... ON CONFLICT ("meterId") DO UPDATE  *)
(* prev is the value of the COALESCE subquery                              *)
UpsertMeterStatus(ms, dto, vehicleId, prev) ==
  LET conflict == {r \in ms : r.meterId = dto.meterId}
  IN  IF conflict = {}
      THEN ms \cup {[meterId |-> dto.meterId,
                     kwhConsumedAc |-> dto.kwhConsumedAc,
                     voltage |-> dto.voltage,
                     lastReadingAt |-> dto.timestamp,
                     dailyKwhConsumedAc |-> dto.kwhConsumedAc,
                     vehicleId |-> vehicleId,
                     status |-> "online"]}
      ELSE (ms \ conflict) \cup
           {[r EXCEPT
               !.kwhConsumedAc = dto.kwhConsumedAc,
               !.voltage = dto.voltage,
               !.lastReadingAt = dto.timestamp,
               !.dailyKwhConsumedAc =
                  r.dailyKwhConsumedAc +
                  (IF Date(dto.timestamp) > Date(r.lastReadingAt)
                   THEN dto.kwhConsumedAc
                   ELSE dto.kwhConsumedAc - prev),
               !.vehicleId = IF vehicleId # Null THEN vehicleId ELSE r.vehicleId,
               !.status = "online"] : r \in conflict}

(* as UpsertVehicleStatus, without GREATEST(0, ...) around the same-day    *)
(* difference                                                              *)
UpsertVehicleStatus_NoGreatest(vs, dto, meterId) ==
  LET chargingState == IF dto.kwhDeliveredDc > 0 THEN "charging" ELSE "idle"
      batteryTempWarning == dto.batteryTemp >= BATTERY_TEMP_WARNING
      conflict == {r \in vs : r.vehicleId = dto.vehicleId}
  IN  IF conflict = {}
      THEN vs \cup {[vehicleId |-> dto.vehicleId,
                     soc |-> dto.soc,
                     kwhDeliveredDc |-> dto.kwhDeliveredDc,
                     batteryTemp |-> dto.batteryTemp,
                     lastReadingAt |-> dto.timestamp,
                     dailyKwhDeliveredDc |-> dto.kwhDeliveredDc,
                     meterId |-> meterId,
                     chargingState |-> chargingState,
                     batteryTempWarning |-> batteryTempWarning]}
      ELSE (vs \ conflict) \cup
           {[r EXCEPT
               !.soc = dto.soc,
               !.kwhDeliveredDc = dto.kwhDeliveredDc,
               !.batteryTemp = dto.batteryTemp,
               !.lastReadingAt = dto.timestamp,
               !.dailyKwhDeliveredDc =
                  r.dailyKwhDeliveredDc +
                  (IF Date(dto.timestamp) > Date(r.lastReadingAt)
                   THEN dto.kwhDeliveredDc
                   ELSE dto.kwhDeliveredDc - r.kwhDeliveredDc),
               !.meterId = IF meterId # Null THEN meterId ELSE r.meterId,
               !.chargingState = chargingState,
               !.batteryTempWarning = batteryTempWarning] : r \in conflict}

(* as UpsertVehicleStatus, but a warning of an earlier reading stays set   *)
UpsertVehicleStatus_StickyWarning(vs, dto, meterId) ==
  LET chargingState == IF dto.kwhDeliveredDc > 0 THEN "charging" ELSE "idle"
      batteryTempWarning == dto.batteryTemp >= BATTERY_TEMP_WARNING
      conflict == {r \in vs : r.vehicleId = dto.vehicleId}
  IN  IF conflict = {}
      THEN vs \cup {[vehicleId |-> dto.vehicleId,
                     soc |-> dto.soc,
                     kwhDeliveredDc |-> dto.kwhDeliveredDc,
                     batteryTemp |-> dto.batteryTemp,
                     lastReadingAt |-> dto.timestamp,
                     dailyKwhDeliveredDc |-> dto.kwhDeliveredDc,
                     meterId |-> meterId,
                     chargingState |-> chargingState,
                     batteryTempWarning |-> batteryTempWarning]}
      ELSE (vs \ conflict) \cup
           {[r EXCEPT
               !.soc = dto.soc,
               !.kwhDeliveredDc = dto.kwhDeliveredDc,
               !.batteryTemp = dto.batteryTemp,
               !.lastReadingAt = dto.timestamp,
               !.dailyKwhDeliveredDc =
                  r.dailyKwhDeliveredDc +
                  (IF Date(dto.timestamp) > Date(r.lastReadingAt)
                   THEN dto.kwhDeliveredDc
                   ELSE Max2(0, dto.kwhDeliveredDc - r.kwhDeliveredDc)),
               !.meterId = IF meterId # Null THEN meterId ELSE r.meterId,
               !.chargingState = chargingState,
               !.batteryTempWarning = batteryTempWarning \/ r.batteryTempWarning] : r \in conflict}

(* INSERT INTO vehicle_current_status ... ON CONFLICT ("vehicleId") DO     *)
(* UPDATE                                                                  *)
UpsertVehicleStatus(vs, dto, meterId) ==
  LET chargingState == IF dto.kwhDeliveredDc > 0 THEN "charging" ELSE "idle"
      batteryTempWarning == dto.batteryTemp >= BATTERY_TEMP_WARNING
      conflict == {r \in vs : r.vehicleId = dto.vehicleId}
  IN  IF conflict = {}
      THEN vs \cup {[vehicleId |-> dto.vehicleId,
                     soc |-> dto.soc,
                     kwhDeliveredDc |-> dto.kwhDeliveredDc,
                     batteryTemp |-> dto.batteryTemp,
                     lastReadingAt |-> dto.timestamp,
                     dailyKwhDeliveredDc |-> dto.kwhDeliveredDc,
                     meterId |-> meterId,
                     chargingState |-> chargingState,
                     batteryTempWarning |-> batteryTempWarning]}
      ELSE (vs \ conflict) \cup
           {[r EXCEPT
               !.soc = dto.soc,
               !.kwhDeliveredDc = dto.kwhDeliveredDc,
               !.batteryTemp = dto.batteryTemp,
               !.lastReadingAt = dto.timestamp,
               !.dailyKwhDeliveredDc =
                  r.dailyKwhDeliveredDc +
                  (IF Date(dto.timestamp) > Date(r.lastReadingAt)
                   THEN dto.kwhDeliveredDc
                   ELSE Max2(0, dto.kwhDeliveredDc - r.kwhDeliveredDc)),
               !.meterId = IF meterId # Null THEN meterId ELSE r.meterId,
               !.chargingState = chargingState,
               !.batteryTempWarning = batteryTempWarning] : r \in conflict}

(* deviceMappingRepo.upsert({meterId, vehicleId, isActive: true},          *)
(* ['meterId', 'vehicleId'])                                               *)
(* as UpsertMapping, but a link that is there is left as it is *)
UpsertMapping_InsertOnly(dm, m, v) ==
  IF \E x \in dm : x.meterId = m /\ x.vehicleId = v THEN dm
  ELSE dm \cup {[meterId |-> m, vehicleId |-> v, isActive |-> TRUE]}

UpsertMapping(dm, m, v) ==
  {x \in dm : ~(x.meterId = m /\ x.vehicleId = v)}
    \cup {[meterId |-> m, vehicleId |-> v, isActive |-> TRUE]}

(* meterStatusRepo.update({meterId}, {vehicleId}) *)
UpdateMeterPeer(ms, m, v) ==
  {IF r.meterId = m THEN [r EXCEPT !.vehicleId = v] ELSE r : r \in ms}

(* as UpdateVehiclePeer, without the WHERE clause *)
UpdateVehiclePeer_AllRows(vs, m, v) == {[r EXCEPT !.meterId = m] : r \in vs}

(* vehicleStatusRepo.update({vehicleId}, {meterId}) *)
UpdateVehiclePeer(vs, m, v) ==
  {IF r.vehicleId = v THEN [r EXCEPT !.meterId = m] ELSE r : r \in vs}

(* as DeactivateRow, but the link is deleted *)
DeactivateRow_Delete(dm, m, v) == {x \in dm : ~(x.meterId = m /\ x.vehicleId = v)}

(* deviceMappingRepo.update({meterId, vehicleId}, {isActive: false}) *)
DeactivateRow(dm, m, v) ==
  {IF x.meterId = m /\ x.vehicleId = v THEN [x EXCEPT !.isActive = FALSE] ELSE x
     : x \in dm}

----------------------------------------------------------------------------
(* The handlers as functions of the tables                                 *)

DB ==
  [mh |-> meterHistory, vh |-> vehicleHistory, ms |-> meterStatus,
   vs |-> vehicleStatus, dm |-> deviceMapping, id |-> nextId]

EmptyDB == [mh |-> {}, vh |-> {}, ms |-> {}, vs |-> {}, dm |-> {}, id |-> 1]

SetDB(db) ==
  /\ meterHistory' = db.mh
  /\ vehicleHistory' = db.vh
  /\ meterStatus' = db.ms
  /\ vehicleStatus' = db.vs
  /\ deviceMapping' = db.dm
  /\ nextId' = db.id

(* ingestMeterTelemetry run from its first line to its last: the tables it *)
(* can leave behind                                                        *)
IngestMeterTelemetry(db, dto) ==
  UNION {
    LET mh2 == InsertRow(db.mh, MeterHistoryEntry(db.id, dto, peer))
    IN  {[db EXCEPT !.mh = mh2,
                    !.ms = UpsertMeterStatus(db.ms, dto, peer, prev),
                    !.id = db.id + 1]
           : prev \in SecondLatestKwh(mh2, dto.meterId, dto.kwhConsumedAc)}
    : peer \in FindActiveByMeter(db.dm, dto.meterId)}

(* ingestVehicleTelemetry run from its first line to its last *)
IngestVehicleTelemetry(db, dto) ==
  {[db EXCEPT !.vh = InsertRow(db.vh, VehicleHistoryEntry(db.id, dto, peer)),
              !.vs = UpsertVehicleStatus(db.vs, dto, peer),
              !.id = db.id + 1]
     : peer \in FindActiveByVehicle(db.dm, dto.vehicleId)}

(* ingestPolymorphic: dispatch on dto.type *)
IngestPolymorphic(db, dto) ==
  IF dto.type = "meter" THEN IngestMeterTelemetry(db, dto)
  ELSE IngestVehicleTelemetry(db, dto)

(* setDeviceMapping run from its first line to its last *)
SetDeviceMapping(db, m, v) ==
  [db EXCEPT !.dm = UpsertMapping(db.dm, m, v),
             !.ms = UpdateMeterPeer(db.ms, m, v),
             !.vs = UpdateVehiclePeer(db.vs, m, v)]

----------------------------------------------------------------------------
(* Callers                                                                 *)

NoDto == [type |-> "none"]

Idle ==
  [op |-> "idle", pc |-> "none", outcome |-> "none", dto |-> NoDto,
   readings |-> <<>>, idx |-> 0, peer |-> Null, hid |-> 0, hids |-> {},
   success |-> 0, failed |-> 0, errors |-> <<>>, attempted |-> <<>>,
   meterId |-> Null, vehicleId |-> Null, cancelled |-> FALSE]

NoPerf ==
  [called |-> FALSE, notFound |-> FALSE, vehicleId |-> Null, meterId |-> Null,
   periodStart |-> 0, periodEnd |-> 0, totalKwhDeliveredDc |-> 0,
   scannedKwhConsumedAc |-> 0, maxBatteryTemp |-> 0, minBatteryTemp |-> 0,
   readingsCount |-> 0]

(* The reading the caller is working on *)
Cur(c) == IF c.op = "batch" THEN c.readings[c.idx] ELSE c.dto

DeviceOf(dto) == IF dto.type = "meter" THEN dto.meterId ELSE dto.vehicleId

Running(p) == call[p].outcome = "running"

(* A caller is free when it runs no handler.  A new call goes to caller 1  *)
(* when it is free and to caller 2 otherwise (the callers are alike).      *)
Free(p) ==
  /\ ~Running(p)
  /\ \A q \in Procs : q < p => Running(q)

Init ==
  /\ meterHistory = {}
  /\ vehicleHistory = {}
  /\ meterStatus = {}
  /\ vehicleStatus = {}
  /\ deviceMapping = {}
  /\ nextId = 1
  /\ call = [p \in Procs |-> Idle]
  /\ calls = 0
  /\ perf = NoPerf
  /\ done = {}
  /\ okCount = [d \in Meters \cup Vehicles |-> 0]
  /\ base = EmptyDB

(* POST /v1/telemetry/meter, /vehicle and POST /v1/telemetry: the handler  *)
(* is entered with one reading                                             *)
IngestStart(p) ==
  /\ Free(p)
  /\ calls < MaxCalls
  /\ \E dto \in ConcMeterDtos \cup ConcVehicleDtos :
        call' = [call EXCEPT ![p] =
                   [Idle EXCEPT !.op = "ingest", !.pc = "lookup",
                                !.outcome = "running", !.dto = dto]]
  /\ calls' = calls + 1
  /\ UNCHANGED <<tables, perf, history>>

(* ingestBatch up to startTransaction; the batches follow one another *)
BatchStart(p) ==
  /\ Free(p)
  /\ \A q \in Procs : ~Running(q)
  /\ calls < MaxBatchCalls
  /\ \E rs \in Batches :
        call' = [call EXCEPT ![p] =
                   [Idle EXCEPT !.op = "batch", !.pc = "lookup",
                                !.outcome = "running", !.readings = rs,
                                !.idx = 1]]
  /\ calls' = calls + 1
  /\ UNCHANGED <<tables, perf, history>>

(* as AfterReading, but a reading that fails ends the loop *)
AfterReading_BreakOnFailure(c, ok) ==
  IF c.op = "batch"
  THEN [c EXCEPT
          !.success = IF ok THEN @ + 1 ELSE @,
          !.failed = IF ok THEN @ ELSE @ + 1,
          !.errors = IF ok THEN @ ELSE Append(@, DeviceOf(Cur(c))),
          !.idx = IF ok THEN @ + 1 ELSE Len(c.readings) + 1,
          !.peer = Null,
          !.hid = 0,
          !.pc = IF c.idx = Len(c.readings) \/ ~ok THEN "commit" ELSE "lookup"]
  ELSE [c EXCEPT !.outcome = IF ok THEN "ok" ELSE "error"]

(* What follows the last step of one reading: the single-reading handler   *)
(* returns; the try/catch of the batch loop counts the reading and the     *)
(* loop moves to the next one, or to commitTransaction after the last      *)
AfterReading(c, ok) ==
  IF c.op = "batch"
  THEN [c EXCEPT
          !.success = IF ok THEN @ + 1 ELSE @,
          !.failed = IF ok THEN @ ELSE @ + 1,
          !.errors = IF ok THEN @ ELSE Append(@, DeviceOf(Cur(c))),
          !.idx = @ + 1,
          !.peer = Null,
          !.hid = 0,
          !.pc = IF c.idx = Len(c.readings) THEN "commit" ELSE "lookup"]
  ELSE [c EXCEPT !.outcome = IF ok THEN "ok" ELSE "error"]

(* deviceMappingRepo.findOne at the head of ingestMeterTelemetry and       *)
(* ingestVehicleTelemetry                                                  *)
Lookup(p) ==
  /\ Running(p)
  /\ call[p].pc = "lookup"
  /\ LET c == call[p]
         dto == Cur(c)
     IN  \E peer \in (IF dto.type = "meter"
                       THEN FindActiveByMeter(deviceMapping, dto.meterId)
                       ELSE FindActiveByVehicle(deviceMapping, dto.vehicleId)) :
           call' = [call EXCEPT ![p] =
                      [c EXCEPT !.peer = peer, !.pc = "append",
                                !.attempted = Append(@, c.idx)]]
  /\ UNCHANGED <<tables, calls, perf, history>>

(* NOT NULL columns of the history tables *)
Insertable(dto) ==
  IF dto.type = "meter" THEN dto.kwhConsumedAc # Missing
  ELSE dto.kwhDeliveredDc # Missing

(* meterHistoryRepo.insert / vehicleHistoryRepo.insert *)
ColdAppend(p) ==
  /\ Running(p)
  /\ call[p].pc = "append"
  /\ LET c == call[p]
         dto == Cur(c)
     IN  /\ Insertable(dto)
         /\ IF dto.type = "meter"
            THEN /\ meterHistory' =
                      InsertRow(meterHistory, MeterHistoryEntry(nextId, dto, c.peer))
                 /\ UNCHANGED vehicleHistory
            ELSE /\ vehicleHistory' =
                      InsertRow(vehicleHistory, VehicleHistoryEntry(nextId, dto, c.peer))
                 /\ UNCHANGED meterHistory
         /\ call' = [call EXCEPT ![p] =
                       [c EXCEPT !.hid = nextId, !.hids = @ \cup {nextId},
                                 !.pc = "upsert"]]
  /\ nextId' = nextId + 1
  /\ UNCHANGED <<meterStatus, vehicleStatus, deviceMapping, calls, perf, history>>

(* as HotUpsert, but the upsert looks the link up a second time *)
HotUpsert_LooksUpAgain(p) ==
  /\ Running(p)
  /\ call[p].pc = "upsert"
  /\ LET c == call[p]
         dto == Cur(c)
     IN  /\ IF dto.type = "meter"
            THEN /\ \E prev \in SecondLatestKwh(meterHistory, dto.meterId,
                                                dto.kwhConsumedAc) :
                    \E peer \in FindActiveByMeter(deviceMapping, dto.meterId) :
                       meterStatus' = UpsertMeterStatus(meterStatus, dto, peer, prev)
                 /\ UNCHANGED vehicleStatus
            ELSE /\ \E peer \in FindActiveByVehicle(deviceMapping, dto.vehicleId) :
                       vehicleStatus' = UpsertVehicleStatus(vehicleStatus, dto, peer)
                 /\ UNCHANGED meterStatus
         /\ call' = [call EXCEPT ![p] = AfterReading(c, TRUE)]
         /\ done' = done \cup {c.hid}
         /\ okCount' = [okCount EXCEPT ![DeviceOf(dto)] = @ + 1]
  /\ UNCHANGED <<meterHistory, vehicleHistory, deviceMapping, nextId, calls,
                 perf, base>>

(* as HotUpsert, but the upsert also records a link of the device *)
HotUpsert_InfersLink(p) ==
  /\ Running(p)
  /\ call[p].pc = "upsert"
  /\ LET c == call[p]
         dto == Cur(c)
     IN  /\ IF dto.type = "meter"
            THEN /\ \E prev \in SecondLatestKwh(meterHistory, dto.meterId,
                                                dto.kwhConsumedAc) :
                       meterStatus' = UpsertMeterStatus(meterStatus, dto, c.peer, prev)
                 /\ deviceMapping' = UpsertMapping(deviceMapping, dto.meterId, "V1")
                 /\ UNCHANGED vehicleStatus
            ELSE /\ vehicleStatus' = UpsertVehicleStatus(vehicleStatus, dto, c.peer)
                 /\ deviceMapping' = UpsertMapping(deviceMapping, "M1", dto.vehicleId)
                 /\ UNCHANGED meterStatus
         /\ call' = [call EXCEPT ![p] = AfterReading(c, TRUE)]
         /\ done' = done \cup {c.hid}
         /\ okCount' = [okCount EXCEPT ![DeviceOf(dto)] = @ + 1]
  /\ UNCHANGED <<meterHistory, vehicleHistory, nextId, calls, perf, base>>

(* upsertMeterStatus / upsertVehicleStatus, then the handler returns *)
HotUpsert(p) ==
  /\ Running(p)
  /\ call[p].pc = "upsert"
  /\ LET c == call[p]
         dto == Cur(c)
     IN  /\ IF dto.type = "meter"
            THEN /\ \E prev \in SecondLatestKwh(meterHistory, dto.meterId,
                                                dto.kwhConsumedAc) :
                       meterStatus' = UpsertMeterStatus(meterStatus, dto, c.peer, prev)
                 /\ UNCHANGED vehicleStatus
            ELSE /\ vehicleStatus' = UpsertVehicleStatus(vehicleStatus, dto, c.peer)
                 /\ UNCHANGED meterStatus
         /\ call' = [call EXCEPT ![p] = AfterReading(c, TRUE)]
         /\ done' = done \cup {c.hid}
         /\ okCount' = [okCount EXCEPT ![DeviceOf(dto)] = @ + 1]
  /\ UNCHANGED <<meterHistory, vehicleHistory, deviceMapping, nextId, calls,
                 perf, base>>

(* A storage call of the reading throws: the query of the lookup, the      *)
(* insert (also on a NOT NULL violation) or the upsert                     *)
ReadingFails(p) ==
  /\ Running(p)
  /\ call[p].pc \in {"lookup", "append", "upsert"}
  /\ call' = [call EXCEPT ![p] =
                IF call[p].pc = "lookup"
                THEN AfterReading([call[p] EXCEPT !.attempted = Append(@, call[p].idx)], FALSE)
                ELSE AfterReading(call[p], FALSE)]
  /\ UNCHANGED <<tables, calls, perf, history>>

(* queryRunner.rollbackTransaction: undoes the statements run on the      *)
(* queryRunner.  The loop of ingestBatch runs every statement on the       *)
(* repositories and the DataSource, none on the queryRunner, so the        *)
(* transaction is empty and the tables stay as they are.                   *)
RollbackTransaction(db) == db

(* queryRunner.commitTransaction succeeds and ingestBatch returns its      *)
(* counts                                                                  *)
BatchCommit(p) ==
  /\ Running(p)
  /\ call[p].pc = "commit"
  /\ call' = [call EXCEPT ![p] = [@ EXCEPT !.outcome = "ok"]]
  /\ UNCHANGED <<tables, calls, perf, history>>

(* queryRunner.commitTransaction throws: the catch block rolls back and    *)
(* throws the error on                                                     *)
BatchCommitFails(p) ==
  /\ Running(p)
  /\ call[p].pc = "commit"
  /\ SetDB(RollbackTransaction(DB))
  /\ call' = [call EXCEPT ![p] = [@ EXCEPT !.outcome = "error"]]
  /\ UNCHANGED <<calls, perf, history>>

(* The caller of a running ingestBatch signals that it gives the batch up  *)
(* (it aborts the request).  ingestBatch takes no signal and its loop      *)
(* reads none: nothing in the handler depends on this step.                *)
BatchCancel(p) ==
  /\ Running(p)
  /\ call[p].op = "batch"
  /\ ~call[p].cancelled
  /\ call' = [call EXCEPT ![p] = [@ EXCEPT !.cancelled = TRUE]]
  /\ UNCHANGED <<tables, calls, perf, history>>

(* setDeviceMapping is entered *)
SetMappingStart(p) ==
  /\ Free(p)
  /\ calls < MaxCalls
  /\ \E mv \in ConcPairs :
        call' = [call EXCEPT ![p] =
                   [Idle EXCEPT !.op = "setMapping", !.pc = "mapUpsert",
                                !.outcome = "running",
                                !.meterId = mv[1], !.vehicleId = mv[2]]]
  /\ calls' = calls + 1
  /\ UNCHANGED <<tables, perf, history>>

(* deviceMappingRepo.upsert *)
SetMappingUpsert(p) ==
  /\ Running(p)
  /\ call[p].pc = "mapUpsert"
  /\ deviceMapping' = UpsertMapping(deviceMapping, call[p].meterId, call[p].vehicleId)
  /\ call' = [call EXCEPT ![p] = [@ EXCEPT !.pc = "mapMeter"]]
  /\ UNCHANGED <<meterHistory, vehicleHistory, meterStatus, vehicleStatus,
                 nextId, calls, perf, history>>

(* meterStatusRepo.update *)
SetMappingMeter(p) ==
  /\ Running(p)
  /\ call[p].pc = "mapMeter"
  /\ meterStatus' = UpdateMeterPeer(meterStatus, call[p].meterId, call[p].vehicleId)
  /\ call' = [call EXCEPT ![p] = [@ EXCEPT !.pc = "mapVehicle"]]
  /\ UNCHANGED <<meterHistory, vehicleHistory, vehicleStatus, deviceMapping,
                 nextId, calls, perf, history>>

(* vehicleStatusRepo.update, then the handler returns *)
SetMappingVehicle(p) ==
  /\ Running(p)
  /\ call[p].pc = "mapVehicle"
  /\ vehicleStatus' = UpdateVehiclePeer(vehicleStatus, call[p].meterId, call[p].vehicleId)
  /\ call' = [call EXCEPT ![p] = [@ EXCEPT !.outcome = "ok"]]
  /\ UNCHANGED <<meterHistory, vehicleHistory, meterStatus, deviceMapping,
                 nextId, calls, perf, history>>

(* A storage call of setDeviceMapping throws *)
SetMappingFails(p) ==
  /\ Running(p)
  /\ call[p].pc \in {"mapUpsert", "mapMeter", "mapVehicle"}
  /\ call' = [call EXCEPT ![p] = [@ EXCEPT !.outcome = "error"]]
  /\ UNCHANGED <<tables, calls, perf, history>>

(* deactivateMapping: one update *)
DeactivateMapping(p) ==
  /\ Free(p)
  /\ calls < MaxCalls
  /\ \E mv \in ConcPairs :
        /\ deviceMapping' = DeactivateRow(deviceMapping, mv[1], mv[2])
        /\ call' = [call EXCEPT ![p] =
                      [Idle EXCEPT !.op = "deactivate", !.pc = "none",
                                   !.outcome = "ok",
                                   !.meterId = mv[1], !.vehicleId = mv[2]]]
  /\ calls' = calls + 1
  /\ UNCHANGED <<meterHistory, vehicleHistory, meterStatus, vehicleStatus,
                 nextId, perf, history>>

Next ==
  \E p \in Procs :
    \/ IngestStart(p)
    \/ Lookup(p)
    \/ ColdAppend(p)
    \/ HotUpsert(p)
    \/ ReadingFails(p)
    \/ SetMappingStart(p)
    \/ SetMappingUpsert(p)
    \/ SetMappingMeter(p)
    \/ SetMappingVehicle(p)
    \/ SetMappingFails(p)
    \/ DeactivateMapping(p)

Spec == Init /\ [][Next]_vars

----------------------------------------------------------------------------
(* SpecBatch: ingestBatch                                                  *)

NextBatch ==
  \E p \in Procs :
    \/ BatchStart(p)
    \/ Lookup(p)
    \/ ColdAppend(p)
    \/ HotUpsert(p)
    \/ ReadingFails(p)
    \/ BatchCommit(p)
    \/ BatchCommitFails(p)
    \/ BatchCancel(p)

SpecBatch == Init /\ [][NextBatch]_vars

----------------------------------------------------------------------------
(* SpecRace: readings ingested one after the other, then two callers       *)
(* ingest one reading each for the same device, their awaits interleaved   *)

(* One ingest from its first line to its last, before the two callers come *)
PriorIngest ==
  /\ calls = 0
  /\ nextId <= MaxPrior
  /\ \E dto \in ConcMeterDtos \cup ConcVehicleDtos :
       \E db \in IngestPolymorphic(DB, dto) : SetDB(db)
  /\ UNCHANGED <<call, calls, perf, history>>

(* Two requests for one device arrive *)
RaceStart ==
  /\ calls = 0
  /\ \E a, b \in ConcMeterDtos \cup ConcVehicleDtos :
       /\ a.type = b.type
       /\ DeviceOf(a) = DeviceOf(b)
       /\ call' = [p \in Procs |->
                     [Idle EXCEPT !.op = "ingest", !.pc = "lookup",
                                  !.outcome = "running",
                                  !.dto = IF p = 1 THEN a ELSE b]]
  /\ calls' = 2
  /\ base' = DB
  /\ UNCHANGED <<tables, perf, done, okCount>>

NextRace ==
  \/ PriorIngest
  \/ RaceStart
  \/ \E p \in Procs :
       \/ Lookup(p)
       \/ ColdAppend(p)
       \/ HotUpsert(p)

SpecRace == Init /\ [][NextRace]_vars

(* dailyCumulative of the device of dto in the tables db *)
DailyOf(db, dto) ==
  IF dto.type = "meter"
  THEN {r.dailyKwhConsumedAc : r \in {x \in db.ms : x.meterId = dto.meterId}}
  ELSE {r.dailyKwhDeliveredDc : r \in {x \in db.vs : x.vehicleId = dto.vehicleId}}

(* The values of dailyCumulative that ingesting a and then b, each from    *)
(* its first line to its last, can leave                                   *)
SeqDaily(db, a, b) ==
  UNION {UNION {DailyOf(db2, b) : db2 \in IngestPolymorphic(db1, b)}
           : db1 \in IngestPolymorphic(db, a)}

(* C4: after two concurrent ingests for one device no update is lost and   *)
(* none is applied twice: dailyCumulative is a value that one of the two   *)
(* sequential orders of the same two ingests gives.                        *)
C4_NoLostUpdate ==
  (\A p \in Procs : call[p].op = "ingest" /\ call[p].outcome = "ok")
    => LET a == call[1].dto
           b == call[2].dto
       IN  \A d \in DailyOf(DB, a) :
             d \in SeqDaily(base, a, b) \cup SeqDaily(base, b, a)

----------------------------------------------------------------------------
(* SpecSeq: one caller, no storage fault; every ingest runs from its first *)
(* line to its last in one step                                            *)

SeqIngestMeter ==
  /\ nextId <= MaxSeqReadings
  /\ \E dto \in SeqMeterDtos :
       \E db \in IngestMeterTelemetry(DB, dto) : SetDB(db)
  /\ UNCHANGED <<call, calls, perf, history>>

SeqIngestVehicle ==
  /\ nextId <= MaxSeqReadings
  /\ \E dto \in SeqVehicleDtos :
       \E db \in IngestVehicleTelemetry(DB, dto) : SetDB(db)
  /\ UNCHANGED <<call, calls, perf, history>>

NextSeq ==
  \/ SeqIngestMeter
  \/ SeqIngestVehicle

SpecSeq == Init /\ [][NextSeq]_vars

(* The rows of one device in the order of their ingestion *)
RECURSIVE ById(_)
ById(rows) ==
  IF rows = {} THEN <<>>
  ELSE LET last == CHOOSE r \in rows : \A x \in rows : r.id >= x.id
       IN  Append(ById(rows \ {last}), last)

MeterReadings(m) ==
  LET q == ById(MeterRows(meterHistory, m))
  IN  [i \in 1..Len(q) |-> [kwh |-> q[i].kwhConsumedAc, timestamp |-> q[i].timestamp]]

VehicleReadings(v) ==
  LET q == ById(VehicleRows(vehicleHistory, v))
  IN  [i \in 1..Len(q) |-> [kwh |-> q[i].kwhDeliveredDc, timestamp |-> q[i].timestamp]]

(* N >= 1 readings of one calendar day with increasing timestamps *)
SameDayIncreasing(q) ==
  /\ Len(q) >= 1
  /\ \A i \in 1..Len(q) :
       /\ Date(q[i].timestamp) = Date(q[1].timestamp)
       /\ (i > 1 => q[i].timestamp > q[i - 1].timestamp)

NonDecreasing(q) == \A i \in 2..Len(q) : q[i].kwh >= q[i - 1].kwh

(* The first value plus the differences of the later values to their       *)
(* predecessors, as they are (signed) or those above zero only (clamped)   *)
RECURSIVE SumSigned(_, _)
SumSigned(q, n) ==
  IF n = 1 THEN q[1].kwh ELSE SumSigned(q, n - 1) + (q[n].kwh - q[n - 1].kwh)

RECURSIVE SumClamped(_, _)
SumClamped(q, n) ==
  IF n = 1 THEN q[1].kwh
  ELSE SumClamped(q, n - 1) + Max2(0, q[n].kwh - q[n - 1].kwh)

MeterDailyIs(m, d) == \A r \in meterStatus : r.meterId = m => r.dailyKwhConsumedAc = d

VehicleDailyIs(v, d) == \A r \in vehicleStatus : r.vehicleId = v => r.dailyKwhDeliveredDc = d

(* C5: an upsert whose reading lies on a later calendar day than the       *)
(* stored lastReadingAt leaves dailyCumulative at the energy value of that *)
(* reading.                                                                *)
C5_DayBoundaryReset ==
  [][/\ \A r \in meterStatus : \A n \in meterStatus' :
          (n.meterId = r.meterId /\ Date(n.lastReadingAt) > Date(r.lastReadingAt))
            => n.dailyKwhConsumedAc = n.kwhConsumedAc
     /\ \A r \in vehicleStatus : \A n \in vehicleStatus' :
          (n.vehicleId = r.vehicleId /\ Date(n.lastReadingAt) > Date(r.lastReadingAt))
            => n.dailyKwhDeliveredDc = n.kwhDeliveredDc]_vars

C7_LatestFields ==
  /\ \A m \in Meters :
       LET q == ById(MeterRows(meterHistory, m))
       IN  Len(q) >= 1 =>
             /\ \E r \in meterStatus : r.meterId = m
             /\ \A r \in meterStatus :
                  r.meterId = m =>
                    /\ r.kwhConsumedAc = q[Len(q)].kwhConsumedAc
                    /\ r.voltage = q[Len(q)].voltage
                    /\ r.lastReadingAt = q[Len(q)].timestamp
  /\ \A v \in Vehicles :
       LET q == ById(VehicleRows(vehicleHistory, v))
       IN  Len(q) >= 1 =>
             /\ \E r \in vehicleStatus : r.vehicleId = v
             /\ \A r \in vehicleStatus :
                  r.vehicleId = v =>
                    /\ r.soc = q[Len(q)].soc
                    /\ r.kwhDeliveredDc = q[Len(q)].kwhDeliveredDc
                    /\ r.batteryTemp = q[Len(q)].batteryTemp
                    /\ r.lastReadingAt = q[Len(q)].timestamp

(* Meter M1 was ingested twice, the second reading older than the first    *)
(* and with another voltage and energy value; the status row shows the     *)
(* second.                                                                 *)
C7_Witness ==
  LET q == ById(MeterRows(meterHistory, "M1"))
  IN  /\ Len(q) = 2
      /\ q[2].timestamp < q[1].timestamp
      /\ q[2].voltage # q[1].voltage
      /\ q[2].kwhConsumedAc # q[1].kwhConsumedAc
      /\ \E r \in meterStatus :
           r.meterId = "M1" /\ r.lastReadingAt = q[2].timestamp /\ r.voltage = q[2].voltage

----------------------------------------------------------------------------
(* SpecScan: ingests and mapping calls that run to their end in one step,  *)
(* then one getPerformance call                                            *)

(* SUM(...) over a set of <<id, value>> pairs *)
RECURSIVE SumOf(_)
SumOf(S) ==
  IF S = {} THEN 0
  ELSE LET x == CHOOSE y \in S : TRUE
       IN  x[2] + SumOf(S \ {x})

MaxOf(S) == CHOOSE x \in S : \A y \in S : x >= y

MinOf(S) == CHOOSE x \in S : \A y \in S : x <= y

(* as InWindow, with the upper end of the window left out *)
InWindow_OpenEnd(t, periodStart, periodEnd) == t >= periodStart /\ t < periodEnd

(* timestamp >= $2 AND timestamp <= $3 *)
InWindow(t, periodStart, periodEnd) == t >= periodStart /\ t <= periodEnd

(* FROM vehicle_telemetry_history WHERE "vehicleId" = $1 AND ... *)
VehicleScan(vh, vehicleId, periodStart, periodEnd) ==
  {r \in vh : r.vehicleId = vehicleId /\ InWindow(r.timestamp, periodStart, periodEnd)}

(* FROM meter_telemetry_history WHERE "meterId" = $1 AND ... *)
MeterScan(mh, meterId, periodStart, periodEnd) ==
  {r \in mh : r.meterId = meterId /\ InWindow(r.timestamp, periodStart, periodEnd)}

(* the fallback: FROM meter_telemetry_history WHERE "vehicleId" = $1 AND ... *)
MeterScanByVehicle(mh, vehicleId, periodStart, periodEnd) ==
  {r \in mh : r.vehicleId = vehicleId /\ InWindow(r.timestamp, periodStart, periodEnd)}

ScanIngest ==
  /\ ~perf.called
  /\ nextId <= MaxScanReadings
  /\ \E dto \in ScanVehicleDtos \cup ScanMeterDtos :
       \E db \in IngestPolymorphic(DB, dto) : SetDB(db)
  /\ UNCHANGED <<call, calls, perf, history>>

ScanSetMapping ==
  /\ ~perf.called
  /\ \E pair \in ConcPairs : SetDB(SetDeviceMapping(DB, pair[1], pair[2]))
  /\ UNCHANGED <<call, calls, perf, history>>

ScanDeactivateMapping ==
  /\ ~perf.called
  /\ \E pair \in ConcPairs :
       /\ \E x \in deviceMapping : x.meterId = pair[1] /\ x.vehicleId = pair[2] /\ x.isActive
       /\ deviceMapping' = DeactivateRow(deviceMapping, pair[1], pair[2])
  /\ UNCHANGED <<meterHistory, vehicleHistory, meterStatus, vehicleStatus,
                 nextId, call, calls, perf, history>>

(* as ResolveMeter, but the meter of an active link goes before the        *)
(* supplied one                                                            *)
ResolveMeter_LinkFirst(dm, vehicleId, given) ==
  IF FindActiveByVehicle(dm, vehicleId) # {Null}
  THEN FindActiveByVehicle(dm, vehicleId)
  ELSE {given}

(* Find associated meter if not provided: the meterId the scans are made   *)
(* with, Null if none was supplied and no active link is found             *)
ResolveMeter(dm, vehicleId, given) ==
  IF given # Null THEN {given} ELSE FindActiveByVehicle(dm, vehicleId)

(* as NoTelemetryData, but an empty window is answered with zeroed metrics *)
NoTelemetryData_Never(readingsCount) == FALSE

(* !vehicleStats[0] || parseInt(vehicleStats[0].readingsCount) === 0: the  *)
(* aggregate query always has its one row                                  *)
NoTelemetryData(readingsCount) == readingsCount = 0

(* getPerformance(vehicleId, hours, given) called at the hour now on the   *)
(* tables db: the answers it can give                                      *)
PerformanceAnswers(db, vehicleId, now, hours, given) ==
  LET periodEnd == now
      periodStart == periodEnd - hours
      found == ResolveMeter(db.dm, vehicleId, given)
      Answer(meterId) ==
        LET vrows == VehicleScan(db.vh, vehicleId, periodStart, periodEnd)
            mrows == IF meterId # Null
                     THEN MeterScan(db.mh, meterId, periodStart, periodEnd)
                     ELSE MeterScanByVehicle(db.mh, vehicleId, periodStart, periodEnd)
            asked == [NoPerf EXCEPT !.called = TRUE, !.vehicleId = vehicleId,
                                    !.meterId = meterId,
                                    !.periodStart = periodStart,
                                    !.periodEnd = periodEnd]
        IN  IF NoTelemetryData(Cardinality(vrows))
            THEN [asked EXCEPT !.notFound = TRUE]
            ELSE [asked EXCEPT
                    !.totalKwhDeliveredDc =
                       SumOf({<<r.id, r.kwhDeliveredDc>> : r \in vrows}),
                    !.maxBatteryTemp =
                       IF vrows = {} THEN 0 ELSE MaxOf({r.batteryTemp : r \in vrows}),
                    !.minBatteryTemp =
                       IF vrows = {} THEN 0 ELSE MinOf({r.batteryTemp : r \in vrows}),
                    !.readingsCount = Cardinality(vrows),
                    !.scannedKwhConsumedAc =
                       SumOf({<<r.id, r.kwhConsumedAc>> : r \in mrows})]
  IN  {Answer(meterId) : meterId \in found}

(* GET /v1/analytics/performance/:vehicleId at the hour now *)
GetPerformance ==
  /\ ~perf.called
  /\ \E vehicleId \in Vehicles, now \in ScanHours, hours \in WindowHours,
        given \in {Null, "M1"} :
       perf' \in PerformanceAnswers(DB, vehicleId, now, hours, given)
  /\ UNCHANGED <<tables, call, calls, history>>

NextScan ==
  \/ ScanIngest
  \/ ScanSetMapping
  \/ ScanDeactivateMapping
  \/ GetPerformance

SpecScan == Init /\ [][NextScan]_vars

(* C10: the answer of a range scan counts and adds up exactly the history  *)
(* rows of the asked device whose timestamp t has from <= t <= to, and     *)
(* there is no answer exactly if there is no such vehicle row.             *)
C10_ClosedWindow ==
  perf.called =>
    LET vin == {r \in vehicleHistory :
                  /\ r.vehicleId = perf.vehicleId
                  /\ perf.periodStart <= r.timestamp
                  /\ r.timestamp <= perf.periodEnd}
        min == {r \in meterHistory :
                  /\ r.meterId = perf.meterId
                  /\ perf.periodStart <= r.timestamp
                  /\ r.timestamp <= perf.periodEnd}
    IN  /\ perf.notFound <=> vin = {}
        /\ ~perf.notFound =>
             /\ perf.readingsCount = Cardinality(vin)
             /\ perf.totalKwhDeliveredDc = SumOf({<<r.id, r.kwhDeliveredDc>> : r \in vin})
             /\ perf.meterId # Null =>
                  perf.scannedKwhConsumedAc = SumOf({<<r.id, r.kwhConsumedAc>> : r \in min})

(* V1 has a row at the last hour of the asked window and a row after it,   *)
(* V2 has a row inside the window: the answer counts the one row of V1.    *)
C10_Witness ==
  /\ perf.called /\ perf.vehicleId = "V1"
  /\ perf.readingsCount = 1
  /\ \E r \in vehicleHistory : r.vehicleId = "V1" /\ r.timestamp = perf.periodEnd
  /\ \E r \in vehicleHistory : r.vehicleId = "V1" /\ r.timestamp > perf.periodEnd
  /\ \E r \in vehicleHistory :
       /\ r.vehicleId = "V2"
       /\ perf.periodStart <= r.timestamp /\ r.timestamp <= perf.periodEnd

(* C12: a history row added by an ingest carries as peer the other end of  *)
(* the active link of its device in the state the ingest ran in, and null  *)
(* when the device has no active link.                                     *)
C12_PeerAtIngest ==
  [][/\ \A r \in vehicleHistory' \ vehicleHistory :
          LET links == {x \in deviceMapping : x.vehicleId = r.vehicleId /\ x.isActive}
          IN  /\ \A x \in links : r.meterId = x.meterId
              /\ links = {} => r.meterId = Null
     /\ \A r \in meterHistory' \ meterHistory :
          LET links == {x \in deviceMapping : x.meterId = r.meterId /\ x.isActive}
          IN  /\ \A x \in links : r.vehicleId = x.vehicleId
              /\ links = {} => r.vehicleId = Null]_vars

(* V1 has a row ingested while linked to M1 and a later row ingested after *)
(* the link was deactivated: peer M1 and peer null.                        *)
C12_Witness ==
  /\ \E x \in deviceMapping : x.meterId = "M1" /\ x.vehicleId = "V1" /\ ~x.isActive
  /\ \E r1, r2 \in vehicleHistory :
       /\ r1.vehicleId = "V1" /\ r2.vehicleId = "V1"
       /\ r1.id < r2.id
       /\ r1.meterId = "M1" /\ r2.meterId = Null

----------------------------------------------------------------------------
(* SpecPerm: the links are set first and stay as they are, then readings   *)
(* are ingested one after the other                                        *)

PermSetMapping ==
  /\ nextId = 1
  /\ \E pair \in PermPairs : SetDB(SetDeviceMapping(DB, pair[1], pair[2]))
  /\ UNCHANGED <<call, calls, perf, history>>

PermDeactivateMapping ==
  /\ nextId = 1
  /\ \E pair \in PermPairs :
       /\ \E x \in deviceMapping : x.meterId = pair[1] /\ x.vehicleId = pair[2] /\ x.isActive
       /\ deviceMapping' = DeactivateRow(deviceMapping, pair[1], pair[2])
  /\ UNCHANGED <<meterHistory, vehicleHistory, meterStatus, vehicleStatus,
                 nextId, call, calls, perf, history>>

PermIngest ==
  /\ nextId <= MaxPermReadings
  /\ \E dto \in PermDtos :
       \E db \in IngestPolymorphic(DB, dto) : SetDB(db)
  /\ UNCHANGED <<call, calls, perf, history>>

NextPerm ==
  \/ PermSetMapping
  \/ PermDeactivateMapping
  \/ PermIngest

SpecPerm == Init /\ [][NextPerm]_vars

(* as FleetTotals, but the consumed total counts only the meter rows that  *)
(* carry a peer                                                            *)
FleetTotals_TaggedOnly(db, now, hours) ==
  LET vrows == {r \in db.vh : InWindow(r.timestamp, now - hours, now)}
      mrows == {r \in db.mh : /\ InWindow(r.timestamp, now - hours, now)
                              /\ r.vehicleId # Null}
  IN  [totalVehicles |-> Cardinality({r.vehicleId : r \in vrows}),
       totalKwhDeliveredDc |-> SumOf({<<r.id, r.kwhDeliveredDc>> : r \in vrows}),
       totalKwhConsumedAc |-> SumOf({<<r.id, r.kwhConsumedAc>> : r \in mrows})]

(* getFleetEfficiency at the hour now: the vehicles counted and the two    *)
(* totals of the window                                                    *)
FleetTotals(db, now, hours) ==
  LET vrows == {r \in db.vh : InWindow(r.timestamp, now - hours, now)}
      mrows == {r \in db.mh : InWindow(r.timestamp, now - hours, now)}
  IN  [totalVehicles |-> Cardinality({r.vehicleId : r \in vrows}),
       totalKwhDeliveredDc |-> SumOf({<<r.id, r.kwhDeliveredDc>> : r \in vrows}),
       totalKwhConsumedAc |-> SumOf({<<r.id, r.kwhConsumedAc>> : r \in mrows})]

(* The reading a history row was made of *)
ReadingOf(r) ==
  IF "kwhConsumedAc" \in DOMAIN r
  THEN [type |-> "meter", meterId |-> r.meterId, kwhConsumedAc |-> r.kwhConsumedAc,
        voltage |-> r.voltage, timestamp |-> r.timestamp]
  ELSE [type |-> "vehicle", vehicleId |-> r.vehicleId, soc |-> r.soc,
        kwhDeliveredDc |-> r.kwhDeliveredDc, batteryTemp |-> r.batteryTemp,
        timestamp |-> r.timestamp]

(* The readings ingested so far, in the order of their ingestion *)
Ingested ==
  LET q == ById(meterHistory \cup vehicleHistory)
  IN  [i \in 1..Len(q) |-> ReadingOf(q[i])]

(* The tables that ingesting the readings q[1..n] in this order can leave *)
RECURSIVE RunAll(_, _, _)
RunAll(db, q, n) ==
  IF n = 0 THEN {db}
  ELSE UNION {IngestPolymorphic(d, q[n]) : d \in RunAll(db, q, n - 1)}

(* The rows of a table without their ids, each with the number of times it *)
(* occurs                                                                  *)
Contents(table) ==
  LET Strip(r) == [r EXCEPT !.id = 0]
  IN  {<<c, Cardinality({r \in table : Strip(r) = c})>> : c \in {Strip(r) : r \in table}}

(* What the history tables hold and what the analytics answer from them *)
Observed(db) ==
  [mh |-> Contents(db.mh),
   vh |-> Contents(db.vh),
   summaries |-> [x \in PermHours \X {Null, "M1"} |->
                    PerformanceAnswers(db, "V1", x[1], 1, x[2])],
   fleet |-> [now \in PermHours |-> FleetTotals(db, now, 1)]]

(* C11: with the links fixed, the readings ingested so far leave, in every *)
(* order of ingestion, the same history rows (ids aside) and the same      *)
(* device summaries and fleet totals for every window.                     *)
C11_OrderIndependent ==
  LET q == Ingested
      start == [EmptyDB EXCEPT !.dm = deviceMapping]
      Outcomes(f) ==
        {Observed(db) : db \in RunAll(start, [i \in 1..Len(q) |-> q[f[i]]], Len(q))}
      asIs == Outcomes([i \in 1..Len(q) |-> i])
  IN  /\ Observed(DB) \in asIs
      /\ \A f \in Permutations(1..Len(q)) : Outcomes(f) = asIs

(* With M1 linked to V1, meter M1 reported hour 1 before hour 0 with       *)
(* different energy values, and V1 reported too.                           *)
C11_Witness ==
  LET q == ById(MeterRows(meterHistory, "M1"))
  IN  /\ Len(q) = 2
      /\ q[1].timestamp > q[2].timestamp
      /\ q[1].kwhConsumedAc # q[2].kwhConsumedAc
      /\ q[1].vehicleId = "V1" /\ q[2].vehicleId = "V1"
      /\ vehicleHistory # {}

(* C13: every meter has at most one active link and every vehicle has at   *)
(* most one active link.                                                   *)
C13_OneActiveLink ==
  /\ \A m \in Meters :
       Cardinality({x \in deviceMapping : x.meterId = m /\ x.isActive}) <= 1
  /\ \A v \in Vehicles :
       Cardinality({x \in deviceMapping : x.vehicleId = v /\ x.isActive}) <= 1

(* C14: lookups of the active peer of one device in one state of the links *)
(* give the same peer: the history rows of one meter, all ingested under   *)
(* the same links, carry the same peer.                                    *)
C14_SamePeer ==
  \A r1, r2 \in meterHistory :
    r1.meterId = r2.meterId => r1.vehicleId = r2.vehicleId

(* C15: setDeviceMapping(m, v) leaves exactly one link keyed (m, v), which *)
(* is active, and a second call right after it changes neither the links   *)
(* nor the status tables.                                                  *)
C15_SetLinkIdempotent ==
  \A m \in Meters, v \in Vehicles :
    LET once == SetDeviceMapping(DB, m, v)
        twice == SetDeviceMapping(once, m, v)
        keyed == {x \in once.dm : x.meterId = m /\ x.vehicleId = v}
    IN  /\ Cardinality(keyed) = 1
        /\ \A x \in keyed : x.isActive
        /\ twice = once

(* The link (M1, V1) is active again after having been deactivated: V1 has *)
(* a row ingested under the link and a later one ingested without it.      *)
C15_Witness ==
  /\ \E x \in deviceMapping : x.meterId = "M1" /\ x.vehicleId = "V1" /\ x.isActive
  /\ Cardinality({x \in deviceMapping : x.meterId = "M1" /\ x.vehicleId = "V1"}) = 1
  /\ \E r1, r2 \in vehicleHistory :
       /\ r1.vehicleId = "V1" /\ r2.vehicleId = "V1"
       /\ r1.id < r2.id
       /\ r1.meterId = "M1" /\ r2.meterId = Null
  /\ \E r \in vehicleStatus : r.vehicleId = "V1" /\ r.meterId = "M1"

LinkKeys(dm) == {<<x.meterId, x.vehicleId>> : x \in dm}

(* deactivateMapping(m, v) turns the link (m, v) inactive where it exists  *)
(* and changes, adds and removes nothing else                              *)
C17_Deactivate ==
  \A m \in Meters, v \in Vehicles :
    LET after == DeactivateRow(deviceMapping, m, v)
    IN  /\ LinkKeys(after) = LinkKeys(deviceMapping)
        /\ Cardinality(after) = Cardinality(LinkKeys(deviceMapping))
        /\ \A x \in deviceMapping :
             IF x.meterId = m /\ x.vehicleId = v
             THEN [x EXCEPT !.isActive = FALSE] \in after
             ELSE x \in after

(* C17: deactivateMapping marks the link inactive and keeps it, changes no *)
(* other link and creates none, and no step of any operation removes a     *)
(* link key.                                                               *)
C17_LinksKept ==
  [](C17_Deactivate) /\ [][LinkKeys(deviceMapping) \subseteq LinkKeys(deviceMapping')]_vars

(* The link (M1, V1) is there and inactive, the link (M1, V2) is active,   *)
(* and a reading was ingested since.                                       *)
C17_Witness ==
  /\ \E x \in deviceMapping : x.meterId = "M1" /\ x.vehicleId = "V1" /\ ~x.isActive
  /\ \E x \in deviceMapping : x.meterId = "M1" /\ x.vehicleId = "V2" /\ x.isActive
  /\ nextId > 1

----------------------------------------------------------------------------
(* Properties of the single-reading handlers under concurrency (Spec)      *)

(* C1: once a single-reading ingest has ended, in success or in failure,   *)
(* its history row is in the Cold Store exactly if its upsert was applied  *)
(* to the Hot Store: both or neither.                                      *)
C1_SingleIngestAtomic ==
  \A p \in Procs :
    (call[p].op = "ingest" /\ call[p].outcome \in {"ok", "error"})
      => ((call[p].hid \in HistoryIds) <=> (call[p].outcome = "ok"))

(* C8: every Hot Store table holds at most one row per device id.          *)
C8_OneStatusPerDevice ==
  /\ \A m \in Meters : Cardinality({r \in meterStatus : r.meterId = m}) <= 1
  /\ \A v \in Vehicles : Cardinality({r \in vehicleStatus : r.vehicleId = v}) <= 1

(* Two ingests for meter M1 have returned and M1 has its one status row.   *)
C8_Witness ==
  /\ okCount["M1"] = 2
  /\ Cardinality({r \in meterStatus : r.meterId = "M1"}) = 1

(* The history rows of the ingests that returned are all there, one per    *)
(* ingest.                                                                 *)
C9_Count ==
  /\ \A m \in Meters :
       Cardinality({r \in MeterRows(meterHistory, m) : r.id \in done}) = okCount[m]
  /\ \A v \in Vehicles :
       Cardinality({r \in VehicleRows(vehicleHistory, v) : r.id \in done}) = okCount[v]

(* No step changes or removes a history row, a step adds at most one, and  *)
(* the ingest that returns has added exactly one row, of its device and    *)
(* with its reading.                                                       *)
C9_Step ==
  /\ meterHistory \subseteq meterHistory'
  /\ vehicleHistory \subseteq vehicleHistory'
  /\ Cardinality(meterHistory') + Cardinality(vehicleHistory')
       <= Cardinality(meterHistory) + Cardinality(vehicleHistory) + 1
  /\ \A p \in Procs :
       (call[p].op = "ingest" /\ Running(p) /\ call'[p].outcome = "ok")
         => LET dto == call[p].dto
                mine == {r \in meterHistory' \cup vehicleHistory' : r.id \in call'[p].hids}
            IN  /\ Cardinality(mine) = 1
                /\ \A r \in mine :
                     /\ r.timestamp = dto.timestamp
                     /\ IF dto.type = "meter"
                        THEN r \in meterHistory' /\ r.meterId = dto.meterId
                             /\ r.kwhConsumedAc = dto.kwhConsumedAc
                        ELSE r \in vehicleHistory' /\ r.vehicleId = dto.vehicleId
                             /\ r.kwhDeliveredDc = dto.kwhDeliveredDc

(* C9: the Cold Store is append-only: no operation changes or removes a    *)
(* history row, and every single-reading ingest that returns has added     *)
(* exactly one row for its device (N such ingests, N rows).                *)
C9_AppendOnly == [](C9_Count) /\ [][C9_Step]_vars

(* Two ingests for meter M1 have returned and M1 has two history rows.     *)
C9_Witness ==
  /\ okCount["M1"] = 2
  /\ Cardinality(MeterRows(meterHistory, "M1")) = 2

----------------------------------------------------------------------------
(* Properties of ingestBatch (SpecBatch)                                   *)

InOrder(q) == \A i \in 1..Len(q) : q[i] = i

(* C2: when the transaction of ingestBatch fails, none of the history rows *)
(* and status rows written for its readings is visible afterwards.         *)
C2_BatchAllOrNothing ==
  \A p \in Procs :
    (call[p].op = "batch" /\ call[p].outcome = "error")
      => /\ call[p].hids \cap HistoryIds = {}
         /\ (calls = 1 => meterStatus = {} /\ vehicleStatus = {})

(* C3: ingestBatch attempts every reading once, in input order, whatever   *)
(* happened to the readings before it; every reading is counted once, as a *)
(* success (its rows are applied) or as a failure with one reason.         *)
C3_BatchCounts ==
  \A p \in Procs :
    LET c == call[p]
    IN  c.op = "batch" =>
          /\ InOrder(c.attempted)
          /\ Len(c.attempted) = (IF c.pc = "lookup" THEN c.idx - 1
                                 ELSE IF c.pc = "commit" THEN Len(c.readings)
                                 ELSE c.idx)
          /\ c.success + c.failed = c.idx - 1
          /\ Len(c.errors) = c.failed
          /\ Cardinality(c.hids \cap done) = c.success
          /\ c.hids \subseteq HistoryIds
          /\ (c.pc = "commit" =>
                /\ c.success + c.failed = Len(c.readings)
                /\ Len(c.attempted) = Len(c.readings))

(* A batch of two has returned: its first reading lacked a field and       *)
(* failed, its second reading was applied.                                 *)
C3_Witness ==
  \E p \in Procs :
    LET c == call[p]
    IN  /\ c.op = "batch" /\ c.outcome = "ok"
        /\ Len(c.readings) = 2
        /\ c.readings[1].type = "meter" /\ c.readings[1].kwhConsumedAc = Missing
        /\ c.failed = 1 /\ c.success = 1
        /\ c.attempted = <<1, 2>>
        /\ Cardinality(c.hids) = 1

(* C18: a step of a single-reading or batch ingest leaves the links as     *)
(* they are, and the links change only in steps of the one process that   *)
(* moves, which is in setDeviceMapping or deactivateMapping.               *)
C18_IngestKeepsLinks ==
  [][/\ (\E p \in Procs : /\ call[p].op \in {"ingest", "batch"}
                          /\ Running(p)
                          /\ call'[p] # call[p])
          => deviceMapping' = deviceMapping
     /\ deviceMapping' # deviceMapping
          => \E p \in Procs : /\ call'[p].op \in {"setMapping", "deactivate"}
                              /\ \A q \in Procs \ {p} : call'[q] = call[q]]_vars

(* An ingest has returned with the peer it found, and the one link is as   *)
(* it was set.                                                             *)
C18_Witness ==
  /\ \E p \in Procs : /\ call[p].op = "ingest" /\ call[p].outcome = "ok"
                      /\ call[p].peer # Null
  /\ deviceMapping = {[meterId |-> "M1", vehicleId |-> "V1", isActive |-> TRUE]}

----------------------------------------------------------------------------
(* SpecStatus: ingests that run to their end, and status reads at instants *)
(* counted in milliseconds                                                 *)

(* Device is considered offline if no reading in last 5 minutes *)
OFFLINE_THRESHOLD_MS == 5 * 60 * 1000

(* getTime() of a timestamp of the model, which counts hours *)
GetTime(ts) == ts * 60 * 60 * 1000

(* The instants of the reads: around the threshold after each hour of a    *)
(* reading, and before it                                                  *)
StatusInstants ==
  {GetTime(h) + d : h \in {0, 1},
                    d \in {0 - 1, 0, OFFLINE_THRESHOLD_MS - 1, OFFLINE_THRESHOLD_MS,
                           OFFLINE_THRESHOLD_MS + 1}}

(* as IsOffline, but offline from the threshold on *)
IsOffline_FromThreshold(now, lastReadingAt) ==
  now - GetTime(lastReadingAt) >= OFFLINE_THRESHOLD_MS

(* now.getTime() - status.lastReadingAt.getTime() > OFFLINE_THRESHOLD_MS *)
IsOffline(now, lastReadingAt) ==
  now - GetTime(lastReadingAt) > OFFLINE_THRESHOLD_MS

NoStatus(kind, id, now) ==
  [called |-> TRUE, kind |-> kind, id |-> id, now |-> now, notFound |-> TRUE]

(* StatusService.getMeterStatus(meterId) at the instant now: the answer *)
MeterStatusAnswer(ms, meterId, now) ==
  LET found == {r \in ms : r.meterId = meterId}
  IN  IF found = {} THEN {NoStatus("meter", meterId, now)}
      ELSE {[called |-> TRUE, kind |-> "meter", id |-> meterId, now |-> now,
             notFound |-> FALSE,
             status |-> IF IsOffline(now, r.lastReadingAt)
                        THEN [r EXCEPT !.status = "offline"] ELSE r]
              : r \in found}

(* StatusService.getVehicleStatus(vehicleId) at the instant now *)
VehicleStatusAnswer(vs, vehicleId, now) ==
  LET found == {r \in vs : r.vehicleId = vehicleId}
  IN  IF found = {} THEN {NoStatus("vehicle", vehicleId, now)}
      ELSE {[called |-> TRUE, kind |-> "vehicle", id |-> vehicleId, now |-> now,
             notFound |-> FALSE,
             status |-> IF IsOffline(now, r.lastReadingAt)
                        THEN [r EXCEPT !.chargingState = "offline"] ELSE r]
              : r \in found}

StatusIngest ==
  /\ nextId <= MaxStatusReadings
  /\ \E dto \in StatusDtos :
       \E db \in IngestPolymorphic(DB, dto) : SetDB(db)
  /\ UNCHANGED <<call, calls, perf, history>>

(* GET /v1/status/meter/:meterId *)
GetMeterStatus ==
  /\ \E meterId \in Meters, now \in StatusInstants :
       perf' \in MeterStatusAnswer(meterStatus, meterId, now)
  /\ UNCHANGED <<tables, call, calls, history>>

(* GET /v1/status/vehicle/:vehicleId *)
GetVehicleStatus ==
  /\ \E vehicleId \in Vehicles, now \in StatusInstants :
       perf' \in VehicleStatusAnswer(vehicleStatus, vehicleId, now)
  /\ UNCHANGED <<tables, call, calls, history>>

NextStatus ==
  \/ StatusIngest
  \/ GetMeterStatus
  \/ GetVehicleStatus

SpecStatus == Init /\ [][NextStatus]_vars

(* C19: a status read answers with the stored row, its classification      *)
(* replaced by offline exactly when now is more than 5 minutes after       *)
(* lastReadingAt, and leaves every stored row as it is.                    *)
C19_ReclassifyOnRead ==
  [][perf' # perf =>
       /\ meterStatus' = meterStatus /\ vehicleStatus' = vehicleStatus
       /\ meterHistory' = meterHistory /\ vehicleHistory' = vehicleHistory
       /\ LET a == perf'
              late(r) == a.now - r.lastReadingAt * 3600000 > 300000
          IN  IF a.kind = "meter"
              THEN /\ a.notFound <=> ~\E r \in meterStatus : r.meterId = a.id
                   /\ \A r \in meterStatus :
                        r.meterId = a.id =>
                          a.status = [r EXCEPT !.status =
                                        IF late(r) THEN "offline" ELSE r.status]
              ELSE /\ a.notFound <=> ~\E r \in vehicleStatus : r.vehicleId = a.id
                   /\ \A r \in vehicleStatus :
                        r.vehicleId = a.id =>
                          a.status = [r EXCEPT !.chargingState =
                                        IF late(r) THEN "offline" ELSE r.chargingState]
    ]_vars

(* V1 was read exactly 5 minutes after its last reading and answered as    *)
(* charging; the stored row says charging.                                 *)
C19_Witness ==
  /\ perf.called /\ perf.kind = "vehicle" /\ ~perf.notFound
  /\ perf.now - perf.status.lastReadingAt * 3600000 = 300000
  /\ perf.status.chargingState = "charging"
  /\ \E r \in vehicleStatus : r.vehicleId = "V1" /\ r.chargingState = "charging"

----------------------------------------------------------------------------
(* SpecSummary: ingests and a mapping call that run to their end, then one *)
(* getPerformance call with the response it builds.  Ratios are counted in *)
(* 1/10000 and the energy totals of the response in 1/10000 kWh, the       *)
(* precision to which the response rounds them.                            *)

(* The readings of SpecSummary: V1 delivering 0 or 9 kWh, or an amount    *)
(* at or next to a band border of 100 kWh consumed; M1 consuming 10 or 100 *)
SummaryDtos ==
  [type : {"vehicle"}, vehicleId : {"V1"}, soc : Socs,
   kwhDeliveredDc : {0, 9, 74, 75, 84, 85, 91, 92},
   batteryTemp : {30}, timestamp : {0, 1}]
  \cup
  [type : {"meter"}, meterId : {"M1"}, kwhConsumedAc : {10, 100}, voltage : {240},
   timestamp : {0, 1}]

(* Math.round(n / d) for n >= 0, d > 0 *)
Round(n, d) == (2 * n + d) \div (2 * d)

(* EFFICIENCY_WARNING_THRESHOLD and EFFICIENCY_CRITICAL_THRESHOLD at their *)
(* defaults 0.85 and 0.75, in percent                                      *)
efficiencyWarningThreshold == 85
efficiencyCriticalThreshold == 75

(* as EfficiencyStatus, but a ratio on a border falls into the band below *)
EfficiencyStatus_BorderBelow(num, den) ==
  IF 100 * num > 92 * den THEN "excellent"
  ELSE IF 100 * num > efficiencyWarningThreshold * den THEN "good"
  ELSE IF 100 * num > efficiencyCriticalThreshold * den THEN "warning"
  ELSE "critical"

(* Determine efficiency status: the band of the ratio num / den, den > 0 *)
EfficiencyStatus(num, den) ==
  IF 100 * num >= 92 * den THEN "excellent"
  ELSE IF 100 * num >= efficiencyWarningThreshold * den THEN "good"
  ELSE IF 100 * num >= efficiencyCriticalThreshold * den THEN "warning"
  ELSE "critical"

(* getPerformance from the parsing of the query results to the response:   *)
(* a is what the scans gave; the thresholds are the defaults 0.85, 0.75   *)
Response(a) ==
  LET totalKwhDeliveredDc == a.totalKwhDeliveredDc
      scanned == a.scannedKwhConsumedAc
      estimate == scanned = 0 /\ totalKwhDeliveredDc > 0
      \* efficiencyRatio as a fraction num / den
      num == IF scanned > 0 THEN totalKwhDeliveredDc ELSE IF estimate THEN 9 ELSE 0
      den == IF scanned > 0 THEN scanned ELSE IF estimate THEN 10 ELSE 1
      efficiencyStatus == EfficiencyStatus(num, den)
      efficiencyWarning ==
        IF efficiencyStatus = "warning" THEN <<"Efficiency below 85%">>
        ELSE IF efficiencyStatus = "critical" THEN <<"Efficiency below 75%">>
        ELSE <<>>
      temperatureWarning ==
        IF a.maxBatteryTemp > 55 THEN <<"Critical battery temperature">>
        ELSE IF a.maxBatteryTemp > 45 THEN <<"Elevated battery temperature">>
        ELSE <<>>
  IN  [vehicleId |-> a.vehicleId,
       periodStart |-> a.periodStart,
       periodEnd |-> a.periodEnd,
       totalKwhConsumedAc |-> IF estimate THEN Round(totalKwhDeliveredDc * 100000, 9)
                              ELSE scanned * 10000,
       totalKwhDeliveredDc |-> totalKwhDeliveredDc * 10000,
       efficiencyRatio |-> Round(num * 10000, den),
       efficiencyStatus |-> efficiencyStatus,
       maxBatteryTemp |-> a.maxBatteryTemp,
       minBatteryTemp |-> a.minBatteryTemp,
       warning |-> efficiencyWarning \o temperatureWarning,
       readingsCount |-> a.readingsCount,
       meterId |-> a.meterId]

SummaryIngest ==
  /\ ~perf.called
  /\ nextId <= MaxSummaryReadings
  /\ \E dto \in SummaryDtos :
       \E db \in IngestPolymorphic(DB, dto) : SetDB(db)
  /\ UNCHANGED <<call, calls, perf, history>>

SummarySetMapping ==
  /\ ~perf.called
  /\ \E pair \in ConcPairs : SetDB(SetDeviceMapping(DB, pair[1], pair[2]))
  /\ UNCHANGED <<call, calls, perf, history>>

SummaryDeactivateMapping ==
  /\ ~perf.called
  /\ \E pair \in ConcPairs :
       /\ [meterId |-> pair[1], vehicleId |-> pair[2], isActive |-> TRUE] \in deviceMapping
       /\ deviceMapping' = DeactivateRow(deviceMapping, pair[1], pair[2])
  /\ UNCHANGED <<meterHistory, vehicleHistory, meterStatus, vehicleStatus,
                 nextId, call, calls, perf, history>>

(* GET /v1/analytics/performance/:vehicleId: NotFound or the response *)
GetSummary ==
  /\ ~perf.called
  /\ \E vehicleId \in Vehicles, now \in {0, 1}, given \in {Null, "M1", "M2"} :
       \E a \in PerformanceAnswers(DB, vehicleId, now, 1, given) :
         perf' = IF a.notFound
                 THEN [called |-> TRUE, notFound |-> TRUE, given |-> given,
                       scans |-> a]
                 ELSE [called |-> TRUE, notFound |-> FALSE, given |-> given,
                       scans |-> a, response |-> Response(a)]
  /\ UNCHANGED <<tables, call, calls, history>>

NextSummary ==
  \/ SummaryIngest
  \/ SummarySetMapping
  \/ SummaryDeactivateMapping
  \/ GetSummary

SpecSummary == Init /\ [][NextSummary]_vars

(* Totals of consumed energy that a window can measure *)
MeasuredTotals == {10, 20}

(* C20: for a window with delivered energy and no consumed energy the      *)
(* response has ratio 0.9 and consumed energy delivered / 0.9, and it      *)
(* tells itself from the response to every measured total: it is flagged   *)
(* as estimated.                                                           *)
C20_EstimateFlagged ==
  (/\ perf.called /\ ~perf.notFound
   /\ perf.scans.scannedKwhConsumedAc = 0
   /\ perf.scans.totalKwhDeliveredDc > 0)
    => /\ perf.response.efficiencyRatio = 9000
       /\ perf.response.totalKwhConsumedAc
            = Round(perf.scans.totalKwhDeliveredDc * 100000, 9)
       /\ \A ac \in MeasuredTotals :
            Response([perf.scans EXCEPT !.scannedKwhConsumedAc = ac]) # perf.response

(* The ratio of an answer as the fraction <<num, den>>: delivered over     *)
(* consumed, 0.9 when only delivered energy was found, else 0              *)
RatioOf(scans) ==
  IF scans.scannedKwhConsumedAc > 0
  THEN <<scans.totalKwhDeliveredDc, scans.scannedKwhConsumedAc>>
  ELSE IF scans.totalKwhDeliveredDc > 0 THEN <<9, 10>> ELSE <<0, 1>>

(* C21: the band of a response is excellent exactly if its ratio r has     *)
(* r >= 0.92, good exactly if 0.85 <= r < 0.92, warning exactly if         *)
(* 0.75 <= r < 0.85 and critical exactly if r < 0.75.                      *)
C21_Bands ==
  (perf.called /\ ~perf.notFound) =>
    LET r == RatioOf(perf.scans)
        band == perf.response.efficiencyStatus
        AtLeast(percent) == 100 * r[1] >= percent * r[2]
    IN  /\ band \in {"excellent", "good", "warning", "critical"}
        /\ band = "excellent" <=> AtLeast(92)
        /\ band = "good" <=> (AtLeast(85) /\ ~AtLeast(92))
        /\ band = "warning" <=> (AtLeast(75) /\ ~AtLeast(85))
        /\ band = "critical" <=> ~AtLeast(75)

(* A response on a border: ratio 85 / 100, band good *)
C21_Witness ==
  /\ perf.called /\ ~perf.notFound
  /\ perf.scans.totalKwhDeliveredDc = 85
  /\ perf.scans.scannedKwhConsumedAc = 100
  /\ perf.response.efficiencyStatus = "good"

(* C22: getPerformance fails with NotFound exactly if no history row of    *)
(* the vehicle lies in the window, whatever meter rows lie in it; an       *)
(* answer counts at least one vehicle row.                                 *)
C22_VehicleCentricNotFound ==
  perf.called =>
    LET asked == perf.scans
        vin == VehicleScan(vehicleHistory, asked.vehicleId,
                           asked.periodStart, asked.periodEnd)
    IN  /\ perf.notFound <=> vin = {}
        /\ ~perf.notFound => perf.response.readingsCount >= 1

(* NotFound for V1 although rows of its linked meter M1 lie in the window *)
C22_Witness ==
  /\ perf.called /\ perf.notFound
  /\ perf.scans.vehicleId = "V1" /\ perf.scans.meterId = "M1"
  /\ [meterId |-> "M1", vehicleId |-> "V1", isActive |-> TRUE] \in deviceMapping
  /\ MeterScan(meterHistory, "M1", perf.scans.periodStart, perf.scans.periodEnd) # {}

(* C28: the consumed energy of an answer is the sum over the window's rows *)
(* of the supplied meter if one was supplied, else of the meter of an      *)
(* active link of the vehicle if there is one, else of the meter rows      *)
(* whose peer is the vehicle.                                              *)
C28_MeterResolution ==
  (perf.called /\ ~perf.notFound) =>
    LET a == perf.scans
        linked == {x.meterId : x \in {y \in deviceMapping :
                                        y.vehicleId = a.vehicleId /\ y.isActive}}
        Of(meterId) == {r \in meterHistory :
                          /\ r.meterId = meterId
                          /\ a.periodStart <= r.timestamp
                          /\ r.timestamp <= a.periodEnd}
        tagged == {r \in meterHistory :
                     /\ r.vehicleId = a.vehicleId
                     /\ a.periodStart <= r.timestamp
                     /\ r.timestamp <= a.periodEnd}
        rows == IF perf.given # Null THEN Of(perf.given)
                ELSE IF linked # {} THEN Of(a.meterId)
                ELSE tagged
    IN  /\ perf.given # Null => a.meterId = perf.given
        /\ (perf.given = Null /\ linked # {}) => a.meterId \in linked
        /\ (perf.given = Null /\ linked = {}) => a.meterId = Null
        /\ a.scannedKwhConsumedAc = SumOf({<<r.id, r.kwhConsumedAc>> : r \in rows})

(* M2 is supplied for V1 while V1 is linked to M1, and M1 has consumed     *)
(* energy in the window: the answer counts none of it                      *)
C28_Witness ==
  /\ perf.called /\ ~perf.notFound
  /\ perf.given = "M2" /\ perf.scans.vehicleId = "V1"
  /\ [meterId |-> "M1", vehicleId |-> "V1", isActive |-> TRUE] \in deviceMapping
  /\ MeterScan(meterHistory, "M1", perf.scans.periodStart, perf.scans.periodEnd) # {}
  /\ perf.scans.scannedKwhConsumedAc = 0

(* The fallback: no meter supplied, the link deactivated, and the rows of  *)
(* M1 ingested under the link are counted by their peer                    *)
C28_FallbackReached ==
  /\ perf.called /\ ~perf.notFound
  /\ perf.given = Null /\ perf.scans.meterId = Null
  /\ perf.scans.scannedKwhConsumedAc > 0

----------------------------------------------------------------------------
(* SpecFleet: ingests and mapping calls that run to their end, then one    *)
(* getFleetEfficiency call.  Ratios are counted in 1/10000 and the energy  *)
(* totals of the response in 1/100 kWh.                                    *)

(* The readings of SpecFleet: M1 and M2 consuming 100 kWh, V1 and V2       *)
(* delivering amounts in, at the borders of and below the warning band     *)
FleetDtos ==
  [type : {"vehicle"}, vehicleId : {"V1"}, soc : Socs,
   kwhDeliveredDc : {75, 80, 85}, batteryTemp : {30}, timestamp : {1}]
  \cup
  [type : {"vehicle"}, vehicleId : {"V2"}, soc : Socs,
   kwhDeliveredDc : {60, 74}, batteryTemp : {30}, timestamp : {1}]
  \cup
  [type : {"meter"}, meterId : {"M1"}, kwhConsumedAc : {100}, voltage : {240},
   timestamp : {1}]
  \cup
  [type : {"meter"}, meterId : {"M2"}, kwhConsumedAc : {100}, voltage : {240},
   timestamp : {0, 1}]

FleetPairs == {<<"M1", "V1">>, <<"M2", "V2">>}

(* The hours at which getFleetEfficiency is called, with hours = 1 *)
FleetHours == {1, 3}

(* as EfficiencyBreakdown, without WHERE "totalAc" > 0 *)
EfficiencyBreakdown_KeepZero(db, periodStart, periodEnd) ==
  LET vrows == {r \in db.vh : InWindow(r.timestamp, periodStart, periodEnd)}
      Of(v) == {r \in vrows : r.vehicleId = v}
      Tagged(v) == {r \in db.mh : /\ r.vehicleId = v
                                  /\ InWindow(r.timestamp, periodStart, periodEnd)}
  IN  {[vehicleId |-> v,
        totalDc |-> SumOf({<<r.id, r.kwhDeliveredDc>> : r \in Of(v)}),
        totalAc |-> SumOf({<<r.id, r.kwhConsumedAc>> : r \in Tagged(v)})]
       : v \in {r.vehicleId : r \in vrows}}

(* Get efficiency breakdown per vehicle: the rows of the vehicle_energy    *)
(* query; the ratio of a row is totalDc / totalAc                          *)
EfficiencyBreakdown(db, periodStart, periodEnd) ==
  LET vrows == {r \in db.vh : InWindow(r.timestamp, periodStart, periodEnd)}
      Of(v) == {r \in vrows : r.vehicleId = v}
      Tagged(v) == {r \in db.mh : /\ r.vehicleId = v
                                  /\ InWindow(r.timestamp, periodStart, periodEnd)}
      energy == {[vehicleId |-> v,
                  totalDc |-> SumOf({<<r.id, r.kwhDeliveredDc>> : r \in Of(v)}),
                  totalAc |-> SumOf({<<r.id, r.kwhConsumedAc>> : r \in Tagged(v)})]
                 : v \in {r.vehicleId : r \in vrows}}
  IN  {e \in energy : e.totalAc > 0}

(* getFleetEfficiency(hours) called at the hour now on the tables db *)
FleetEfficiency(db, now, hours) ==
  LET periodEnd == now
      periodStart == periodEnd - hours
      totals == FleetTotals(db, now, hours)
      efficiencyBreakdown == EfficiencyBreakdown(db, periodStart, periodEnd)
      totalKwhDeliveredDc == totals.totalKwhDeliveredDc
      totalKwhConsumedAc == totals.totalKwhConsumedAc
      avgEfficiencyRatio ==
        IF totalKwhConsumedAc > 0
        THEN Round(totalKwhDeliveredDc * 10000, totalKwhConsumedAc)
        ELSE 0
      Below(v, threshold) ==
        IF v.totalAc > 0 THEN 100 * v.totalDc < threshold * v.totalAc
        ELSE 0 < threshold
  IN  [totalVehicles |-> totals.totalVehicles,
       avgEfficiencyRatio |-> avgEfficiencyRatio,
       vehiclesWithWarnings |->
         Cardinality({v \in efficiencyBreakdown :
                        /\ Below(v, efficiencyWarningThreshold)
                        /\ ~Below(v, efficiencyCriticalThreshold)}),
       vehiclesCritical |->
         Cardinality({v \in efficiencyBreakdown :
                        Below(v, efficiencyCriticalThreshold)}),
       totalKwhConsumedAc |-> totalKwhConsumedAc * 100,
       totalKwhDeliveredDc |-> totalKwhDeliveredDc * 100,
       totalEnergyLoss |-> (totalKwhConsumedAc - totalKwhDeliveredDc) * 100]

FleetIngest ==
  /\ ~perf.called
  /\ nextId <= MaxFleetReadings
  /\ \E dto \in FleetDtos :
       \E db \in IngestPolymorphic(DB, dto) : SetDB(db)
  /\ UNCHANGED <<call, calls, perf, history>>

FleetSetMapping ==
  /\ ~perf.called
  /\ \E pair \in FleetPairs :
       /\ [meterId |-> pair[1], vehicleId |-> pair[2], isActive |-> TRUE]
            \notin deviceMapping
       /\ SetDB(SetDeviceMapping(DB, pair[1], pair[2]))
  /\ UNCHANGED <<call, calls, perf, history>>

(* GET /v1/analytics/fleet/efficiency: the call never throws NotFound *)
GetFleetEfficiency ==
  /\ ~perf.called
  /\ \E now \in FleetHours :
       perf' = [called |-> TRUE, kind |-> "fleet", notFound |-> FALSE,
                periodStart |-> now - 1, periodEnd |-> now,
                response |-> FleetEfficiency(DB, now, 1)]
  /\ UNCHANGED <<tables, call, calls, history>>

NextFleet ==
  \/ FleetIngest
  \/ FleetSetMapping
  \/ GetFleetEfficiency

SpecFleet == Init /\ [][NextFleet]_vars

(* The history rows of the window of the fleet answer *)
FleetVehicleRows ==
  {r \in vehicleHistory : perf.periodStart <= r.timestamp /\ r.timestamp <= perf.periodEnd}

FleetMeterRows ==
  {r \in meterHistory : perf.periodStart <= r.timestamp /\ r.timestamp <= perf.periodEnd}

(* C23: an analytics query whose window holds no record fails with         *)
(* NotFound.                                                               *)
C23_EmptyWindowNotFound ==
  (perf.called /\ FleetVehicleRows = {} /\ FleetMeterRows = {}) => perf.notFound

(* The vehicles with a history row in the window of the fleet answer, and  *)
(* per vehicle its delivered energy and the consumed energy of the meter   *)
(* rows in the window whose peer it is                                     *)
FleetVehicles == {r.vehicleId : r \in FleetVehicleRows}

DeliveredOf(v) ==
  SumOf({<<r.id, r.kwhDeliveredDc>> : r \in {x \in FleetVehicleRows : x.vehicleId = v}})

ConsumedOf(v) ==
  SumOf({<<r.id, r.kwhConsumedAc>> : r \in {x \in FleetMeterRows : x.vehicleId = v}})

(* The ratio delivered / consumed of v, 0 without consumed energy, is      *)
(* below percent / 100                                                     *)
RatioBelow(v, percent) ==
  IF ConsumedOf(v) > 0 THEN 100 * DeliveredOf(v) < percent * ConsumedOf(v)
  ELSE 0 < percent

C25_AggregateRatio ==
  (perf.called /\ perf.kind = "fleet") =>
    LET dc == SumOf({<<r.id, r.kwhDeliveredDc>> : r \in FleetVehicleRows})
        ac == SumOf({<<r.id, r.kwhConsumedAc>> : r \in FleetMeterRows})
    IN  /\ perf.response.totalKwhDeliveredDc = 100 * dc
        /\ perf.response.totalKwhConsumedAc = 100 * ac
        /\ ac = 0 => perf.response.avgEfficiencyRatio = 0
        /\ ac > 0 => /\ 2 * ac * perf.response.avgEfficiencyRatio <= 20000 * dc + ac
                     /\ 2 * ac * perf.response.avgEfficiencyRatio > 20000 * dc - ac

(* One vehicle with the ratio 0.8 to its own meter, and a second meter     *)
(* without a peer: the fleet-wide ratio is 0.4, not the average 0.8 of the *)
(* per-device ratios                                                       *)
C25_Witness ==
  /\ perf.called /\ perf.kind = "fleet"
  /\ FleetVehicles = {"V1"}
  /\ DeliveredOf("V1") = 80 /\ ConsumedOf("V1") = 100
  /\ perf.response.totalKwhConsumedAc = 20000
  /\ perf.response.avgEfficiencyRatio = 4000

----------------------------------------------------------------------------
(* SpecTrend: ingests and a mapping call that run to their end, then one   *)
(* getEfficiencyTrend call.  Here time is counted in half hours, so that   *)
(* an hour holds more than one instant; the daily sums of the status rows, *)
(* which take HoursPerDay instants for a day, play no part in the trend.   *)

(* The instants of an hour *)
TicksPerHour == 2

(* date_trunc('hour', timestamp) *)
TruncHour(t) == t - (t % TicksPerHour)

(* The readings of SpecTrend, over two hours: V1, its meter M1 and a       *)
(* second meter M2                                                         *)
TrendDtos ==
  [type : {"vehicle"}, vehicleId : {"V1"}, soc : Socs, kwhDeliveredDc : {1},
   batteryTemp : {30}, timestamp : 0..3]
  \cup
  [type : {"meter"}, meterId : {"M1"}, kwhConsumedAc : {2}, voltage : {240},
   timestamp : 0..3]
  \cup
  [type : {"meter"}, meterId : {"M2"}, kwhConsumedAc : {4}, voltage : {240},
   timestamp : {1}]

(* The instants at which getEfficiencyTrend is called *)
TrendInstants == {3, 4}

(* The elements of a set of numbers in ascending order *)
Ascending(S) ==
  CHOOSE q \in [1..Cardinality(S) -> S] :
    \A i, j \in 1..Cardinality(S) : i < j => q[i] < q[j]

(* as HourlyVehicle, but one bucket per instant *)
HourlyVehicle_PerInstant(vh, vehicleId, periodStart, periodEnd) ==
  LET rows == VehicleScan(vh, vehicleId, periodStart, periodEnd)
      In(h) == {r \in rows : r.timestamp = h}
  IN  {[hour |-> h,
        kwhDeliveredDc |-> SumOf({<<r.id, r.kwhDeliveredDc>> : r \in In(h)}),
        sumBatteryTemp |-> SumOf({<<r.id, r.batteryTemp>> : r \in In(h)}),
        count |-> Cardinality(In(h))]
       : h \in {r.timestamp : r \in rows}}

(* WITH hourly_vehicle AS (... GROUP BY date_trunc('hour', timestamp)) *)
HourlyVehicle(vh, vehicleId, periodStart, periodEnd) ==
  LET rows == VehicleScan(vh, vehicleId, periodStart, periodEnd)
      In(h) == {r \in rows : TruncHour(r.timestamp) = h}
  IN  {[hour |-> h,
        kwhDeliveredDc |-> SumOf({<<r.id, r.kwhDeliveredDc>> : r \in In(h)}),
        sumBatteryTemp |-> SumOf({<<r.id, r.batteryTemp>> : r \in In(h)}),
        count |-> Cardinality(In(h))]
       : h \in {TruncHour(r.timestamp) : r \in rows}}

(* hourly_meter AS (... WHERE ($4::varchar IS NULL OR "meterId" = $4 OR    *)
(* "vehicleId" = $1) ... GROUP BY date_trunc('hour', timestamp))           *)
HourlyMeter(mh, vehicleId, meterId, periodStart, periodEnd) ==
  LET rows == {r \in mh : /\ \/ meterId = Null
                             \/ r.meterId = meterId
                             \/ r.vehicleId = vehicleId
                          /\ InWindow(r.timestamp, periodStart, periodEnd)}
      In(h) == {r \in rows : TruncHour(r.timestamp) = h}
  IN  {[hour |-> h,
        kwhConsumedAc |-> SumOf({<<r.id, r.kwhConsumedAc>> : r \in In(h)})]
       : h \in {TruncHour(r.timestamp) : r \in rows}}

(* getEfficiencyTrend(vehicleId, hours) called at the instant now on the   *)
(* tables db: the answers it can give                                      *)
EfficiencyTrend(db, vehicleId, now, hours) ==
  LET periodEnd == now
      periodStart == periodEnd - hours * TicksPerHour
      Answer(meterId) ==
        LET hv == HourlyVehicle(db.vh, vehicleId, periodStart, periodEnd)
            hm == HourlyMeter(db.mh, vehicleId, meterId, periodStart, periodEnd)
            order == Ascending({b.hour : b \in hv})
            Row(h) ==
              LET v == CHOOSE b \in hv : b.hour = h
                  joined == {b \in hm : b.hour = h}
                  ac == IF joined = {} THEN 0
                        ELSE (CHOOSE b \in joined : TRUE).kwhConsumedAc
              IN  [hour |-> h,
                   kwhConsumedAc |-> ac * 10000,
                   kwhDeliveredDc |-> v.kwhDeliveredDc * 10000,
                   efficiencyRatio |-> IF ac > 0
                                       THEN Round(v.kwhDeliveredDc * 10000, ac)
                                       ELSE 0,
                   avgBatteryTemp |-> Round(v.sumBatteryTemp * 100, v.count)]
        IN  [called |-> TRUE, kind |-> "trend", notFound |-> FALSE,
             vehicleId |-> vehicleId, meterId |-> meterId,
             periodStart |-> periodStart, periodEnd |-> periodEnd,
             buckets |-> [i \in 1..Len(order) |-> Row(order[i])]]
  IN  {Answer(meterId) : meterId \in FindActiveByVehicle(db.dm, vehicleId)}

TrendIngest ==
  /\ ~perf.called
  /\ nextId <= MaxTrendReadings
  /\ \E dto \in TrendDtos :
       \E db \in IngestPolymorphic(DB, dto) : SetDB(db)
  /\ UNCHANGED <<call, calls, perf, history>>

TrendSetMapping ==
  /\ ~perf.called
  /\ [meterId |-> "M1", vehicleId |-> "V1", isActive |-> TRUE] \notin deviceMapping
  /\ SetDB(SetDeviceMapping(DB, "M1", "V1"))
  /\ UNCHANGED <<call, calls, perf, history>>

(* GET /v1/analytics/trend/:vehicleId *)
GetEfficiencyTrend ==
  /\ ~perf.called
  /\ \E vehicleId \in Vehicles, now \in TrendInstants, hours \in {1, 2} :
       perf' \in EfficiencyTrend(DB, vehicleId, now, hours)
  /\ UNCHANGED <<tables, call, calls, history>>

NextTrend ==
  \/ TrendIngest
  \/ TrendSetMapping
  \/ GetEfficiencyTrend

SpecTrend == Init /\ [][NextTrend]_vars

(* C26: the trend has exactly one bucket for every hour in which the       *)
(* vehicle has a history row of the window, in ascending order of the      *)
(* hour; a bucket holds the delivered energy of the vehicle rows of its    *)
(* hour, and consumed energy 0 and ratio 0 if no meter row of the window   *)
(* lies in its hour; an hour with meter rows only has no bucket.           *)
C26_TrendBuckets ==
  (perf.called /\ perf.kind = "trend") =>
    LET b == perf.buckets
        vin == {r \in vehicleHistory : /\ r.vehicleId = perf.vehicleId
                                       /\ perf.periodStart <= r.timestamp
                                       /\ r.timestamp <= perf.periodEnd}
        min == {r \in meterHistory : /\ perf.periodStart <= r.timestamp
                                     /\ r.timestamp <= perf.periodEnd}
        HourOf(r) == (r.timestamp \div TicksPerHour) * TicksPerHour
    IN  /\ Len(b) = Cardinality({HourOf(r) : r \in vin})
        /\ {b[i].hour : i \in 1..Len(b)} = {HourOf(r) : r \in vin}
        /\ \A i, j \in 1..Len(b) : i < j => b[i].hour < b[j].hour
        /\ \A i \in 1..Len(b) :
             /\ b[i].kwhDeliveredDc
                  = 10000 * SumOf({<<r.id, r.kwhDeliveredDc>> :
                                     r \in {x \in vin : HourOf(x) = b[i].hour}})
             /\ {r \in min : HourOf(r) = b[i].hour} = {}
                  => b[i].kwhConsumedAc = 0 /\ b[i].efficiencyRatio = 0

(* The vehicle is active in the second hour only and the meter in the     *)
(* first hour only, both in the window: one bucket, for the second hour,   *)
(* with consumed energy 0 and ratio 0                                      *)
C26_Witness ==
  /\ perf.called /\ perf.kind = "trend" /\ perf.vehicleId = "V1"
  /\ Len(perf.buckets) = 1
  /\ perf.buckets[1].hour = 2
  /\ perf.buckets[1].kwhDeliveredDc > 0
  /\ perf.buckets[1].kwhConsumedAc = 0 /\ perf.buckets[1].efficiencyRatio = 0
  /\ \E r \in meterHistory : /\ perf.periodStart <= r.timestamp
                             /\ r.timestamp < 2

(* Two buckets in ascending order, the first with consumed energy *)
C26_TwoBuckets ==
  /\ perf.called /\ perf.kind = "trend"
  /\ Len(perf.buckets) = 2
  /\ perf.buckets[1].hour = 0 /\ perf.buckets[1].kwhConsumedAc > 0
  /\ perf.buckets[2].hour = 2

----------------------------------------------------------------------------
(* SpecPost: POST /v1/telemetry requests one after the other, each passing *)
(* the global ValidationPipe before the handler is called, and mapping     *)
(* calls.  No storage fault.                                               *)

(* The request bodies of SpecPost: well-formed readings of M1 and V1, and  *)
(* bodies that lack the energy field, have a voltage above 500 or a state  *)
(* of charge above 100                                                     *)
PostDtos ==
  [type : {"meter"}, meterId : {"M1"}, kwhConsumedAc : {Missing, 1},
   voltage : {240, 501}, timestamp : {0}]
  \cup
  [type : {"vehicle"}, vehicleId : {"V1"}, soc : {50, 101},
   kwhDeliveredDc : {Missing, 1}, batteryTemp : {30}, timestamp : {0, 1}]

(* as Valid, but only the type field is looked at *)
Valid_TypeOnly(dto) == dto.type \in {"meter", "vehicle"}

(* The decorators of PolymorphicTelemetryDto: the fields of the declared   *)
(* type are validated, those of the other type are not                     *)
Valid(dto) ==
  /\ dto.type \in {"meter", "vehicle"}
  /\ dto.type = "meter" =>
       /\ dto.meterId # Null
       /\ dto.kwhConsumedAc # Missing /\ dto.kwhConsumedAc >= 0
       /\ dto.voltage # Missing /\ dto.voltage >= 0 /\ dto.voltage <= 500
  /\ dto.type = "vehicle" =>
       /\ dto.vehicleId # Null
       /\ dto.soc # Missing /\ dto.soc >= 0 /\ dto.soc <= 100
       /\ dto.kwhDeliveredDc # Missing /\ dto.kwhDeliveredDc >= 0
       /\ dto.batteryTemp # Missing /\ dto.batteryTemp >= 0 - 40
       /\ dto.batteryTemp <= 100

(* POST /v1/telemetry: 400 from the pipe, or ingestPolymorphic run from    *)
(* its first line to its last                                              *)
PostTelemetry ==
  /\ calls < MaxPosts
  /\ calls' = calls + 1
  /\ \E dto \in PostDtos :
       IF Valid(dto)
       THEN /\ \E db \in IngestPolymorphic(DB, dto) : SetDB(db)
            /\ call' = [call EXCEPT ![1] = [Idle EXCEPT !.op = "ingest", !.dto = dto,
                                                        !.outcome = "ok"]]
            /\ okCount' = [okCount EXCEPT ![DeviceOf(dto)] = @ + 1]
       ELSE /\ call' = [call EXCEPT ![1] = [Idle EXCEPT !.op = "ingest", !.dto = dto,
                                                        !.outcome = "invalid"]]
            /\ UNCHANGED <<tables, okCount>>
  /\ UNCHANGED <<perf, done, base>>

PostSetMapping ==
  /\ calls < MaxPosts
  /\ [meterId |-> "M1", vehicleId |-> "V1", isActive |-> TRUE] \notin deviceMapping
  /\ SetDB(SetDeviceMapping(DB, "M1", "V1"))
  /\ UNCHANGED <<call, calls, perf, history>>

NextPost ==
  \/ PostTelemetry
  \/ PostSetMapping

SpecPost == Init /\ [][NextPost]_vars

(* A body with a missing or out-of-range field of its declared type *)
Malformed(dto) ==
  IF dto.type = "meter"
  THEN dto.kwhConsumedAc < 0 \/ dto.voltage > 500
  ELSE dto.kwhDeliveredDc < 0 \/ dto.soc > 100

(* C27: a request with a malformed reading is rejected and leaves the five *)
(* tables as they are; a request with a well-formed reading, whatever was  *)
(* rejected before it, does what an ingest of it does on the tables as     *)
(* they were; the history holds one row per accepted request.              *)
C27_RejectedBeforeWrite ==
  /\ [](Cardinality(meterHistory) + Cardinality(vehicleHistory)
          = okCount["M1"] + okCount["V1"])
  /\ [][calls' = calls + 1 =>
          LET dto == call'[1].dto
          IN  IF Malformed(dto)
              THEN call'[1].outcome = "invalid" /\ tables' = tables
              ELSE /\ call'[1].outcome = "ok"
                   /\ DB' \in IngestPolymorphic(DB, dto)]_vars

(* The second request was accepted after the first was rejected: one       *)
(* history row, status as after a first reading                            *)
C27_Witness ==
  /\ calls = 2
  /\ call[1].outcome = "ok" /\ call[1].dto.type = "meter"
  /\ Cardinality(meterHistory) = 1 /\ vehicleHistory = {}
  /\ \E r \in meterStatus : r.meterId = "M1" /\ r.kwhConsumedAc = 1

----------------------------------------------------------------------------
(* SpecOnline: ingests of two meters that run to their end, and reads of   *)
(* the list of online meters                                               *)

OnlineDtos ==
  [type : {"meter"}, meterId : Meters, kwhConsumedAc : {1}, voltage : {240},
   timestamp : {0, 1}]

(* StatusService.getOnlineMeters() at the instant now: the rows with       *)
(* lastReadingAt > threshold, newest first, in each order that ties allow  *)
OnlineMeters(ms, now) ==
  LET threshold == now - OFFLINE_THRESHOLD_MS
      rows == {r \in ms : GetTime(r.lastReadingAt) > threshold}
      n == Cardinality(rows)
      orders == {q \in [1..n -> rows] :
                   /\ \A i, j \in 1..n : i # j => q[i] # q[j]
                   /\ \A i, j \in 1..n :
                        i < j => q[i].lastReadingAt >= q[j].lastReadingAt}
  IN  {[called |-> TRUE, kind |-> "onlineMeters", now |-> now,
        notFound |-> FALSE, meters |-> q] : q \in orders}

OnlineIngest ==
  /\ nextId <= MaxStatusReadings
  /\ \E dto \in OnlineDtos :
       \E db \in IngestPolymorphic(DB, dto) : SetDB(db)
  /\ UNCHANGED <<call, calls, perf, history>>

(* GET /v1/status/meters/online *)
GetOnlineMeters ==
  /\ \E now \in StatusInstants : perf' \in OnlineMeters(meterStatus, now)
  /\ UNCHANGED <<tables, call, calls, history>>

NextOnline ==
  \/ OnlineIngest
  \/ GetOnlineMeters

SpecOnline == Init /\ [][NextOnline]_vars

(* C29: a meter is in the list of online meters exactly if getMeterStatus  *)
(* at the same instant does not answer offline for it.                     *)
C29_OnlineListAgrees ==
  (perf.called /\ perf.kind = "onlineMeters") =>
    \A r \in meterStatus :
      (\E i \in 1..Len(perf.meters) : perf.meters[i].meterId = r.meterId)
        <=> \A a \in MeterStatusAnswer(meterStatus, r.meterId, perf.now) :
              a.status.status # "offline"

(* C30: once the caller of a running ingestBatch has signalled             *)
(* cancellation, the batch starts the attempt of no further reading.       *)
C30_CancelBetweenRecords ==
  [][\A p \in Procs :
       (call[p].op = "batch" /\ call[p].cancelled)
         => Len(call'[p].attempted) <= Len(call[p].attempted)]_vars

----------------------------------------------------------------------------
(* SpecLink: some readings ingested one after the other, then two          *)
(* concurrent callers of the single-reading and mapping handlers, each     *)
(* handler split at its awaits                                             *)

(* The readings of SpecLink: one reading of meter M1 and one of vehicle V1 *)
LinkDtos ==
  {d \in ConcMeterDtos \cup ConcVehicleDtos :
     /\ d.timestamp = 0
     /\ (d.type = "meter" => d.kwhConsumedAc = 1)
     /\ (d.type = "vehicle" => d.kwhDeliveredDc = 1)}

(* A reading ingested before the concurrent calls arrive *)
LinkPrior ==
  /\ calls = 0
  /\ nextId <= MaxPrior
  /\ \E dto \in LinkDtos :
       \E db \in IngestPolymorphic(DB, dto) : SetDB(db)
  /\ UNCHANGED <<call, calls, perf, history>>

(* A link set before the concurrent calls arrive *)
LinkPriorMapping ==
  /\ calls = 0
  /\ deviceMapping = {}
  /\ \E mv \in ConcPairs : SetDB(SetDeviceMapping(DB, mv[1], mv[2]))
  /\ UNCHANGED <<call, calls, perf, history>>

(* POST /v1/telemetry/meter, /vehicle: the handler is entered *)
LinkIngestStart(p) ==
  /\ Free(p)
  /\ calls < MaxCalls
  /\ \E dto \in LinkDtos :
        call' = [call EXCEPT ![p] =
                   [Idle EXCEPT !.op = "ingest", !.pc = "lookup",
                                !.outcome = "running", !.dto = dto]]
  /\ calls' = calls + 1
  /\ UNCHANGED <<tables, perf, history>>

NextLink ==
  \/ LinkPrior
  \/ LinkPriorMapping
  \/ \E p \in Procs :
       \/ LinkIngestStart(p)
       \/ Lookup(p)
       \/ ColdAppend(p)
       \/ HotUpsert(p)
       \/ SetMappingStart(p)
       \/ SetMappingUpsert(p)
       \/ SetMappingMeter(p)
       \/ SetMappingVehicle(p)
       \/ DeactivateMapping(p)

SpecLink == Init /\ [][NextLink]_vars

(* The peer ids in the StatusRecord of the device of dto *)
StatusPeers(ms, vs, dto) ==
  IF dto.type = "meter"
  THEN {r.vehicleId : r \in {x \in ms : x.meterId = dto.meterId}}
  ELSE {r.meterId : r \in {x \in vs : x.vehicleId = dto.vehicleId}}

(* The peer ids of the HistoryRecord with the given id, when it is the     *)
(* record of the reading dto                                               *)
HistoryPeers(mh, vh, dto, id) ==
  IF dto.type = "meter"
  THEN {r.vehicleId : r \in {x \in mh : /\ x.id = id
                                        /\ x.meterId = dto.meterId
                                        /\ x.timestamp = dto.timestamp
                                        /\ x.kwhConsumedAc = dto.kwhConsumedAc}}
  ELSE {r.meterId : r \in {x \in vh : /\ x.id = id
                                      /\ x.vehicleId = dto.vehicleId
                                      /\ x.timestamp = dto.timestamp
                                      /\ x.kwhDeliveredDc = dto.kwhDeliveredDc}}

(* The step is the Hot Store upsert of the single-reading call of p *)
UpsertStepOf(p) ==
  /\ call[p].op = "ingest"
  /\ call[p].outcome = "running"
  /\ call'[p].outcome = "ok"

(* The steps of one reading come in the order lookup, append, upsert, and  *)
(* the reading keeps the peer its lookup resolved                          *)
StepOrder(p) ==
  /\ (call[p].op = "ingest" /\ call[p].outcome = "running" /\ nextId' # nextId
        /\ call'[p] # call[p])
       => /\ call[p].pc = "append"
          /\ call[p].attempted # << >>
          /\ call'[p].peer = call[p].peer
  /\ UpsertStepOf(p)
       => /\ call[p].pc = "upsert"
          /\ call'[p].peer = call[p].peer
          /\ HistoryPeers(meterHistory, vehicleHistory, call[p].dto, call[p].hid)
               = {call[p].peer}

(* C31 as stated: the Hot Store upsert of a reading comes after its Cold   *)
(* Store append, and after the upsert the peer of the StatusRecord is the  *)
(* peer that the lookup of the reading resolved, as in the HistoryRecord.  *)
C31_PeerAsResolved ==
  [][\A p \in Procs :
       /\ StepOrder(p)
       /\ UpsertStepOf(p)
            => StatusPeers(meterStatus', vehicleStatus', call[p].dto)
                 = {call[p].peer}]_vars

(* C31: the Hot Store upsert of a reading comes after its Cold Store       *)
(* append; the HistoryRecord carries the peer that the single lookup of    *)
(* the reading resolved, whatever setDeviceMapping or deactivateMapping    *)
(* did between the steps; the upsert writes that peer to the StatusRecord  *)
(* when it is not null, and leaves the stored peer when it is null.        *)
C31_StepOrder ==
  [][\A p \in Procs :
       /\ StepOrder(p)
       /\ UpsertStepOf(p)
            => LET dto == call[p].dto
                   before == StatusPeers(meterStatus, vehicleStatus, dto)
                   after == StatusPeers(meterStatus', vehicleStatus', dto)
               IN  IF call[p].peer # Null THEN after = {call[p].peer}
                   ELSE IF before = {} THEN after = {Null}
                   ELSE after = before]_vars

(* An ingest has ended that resolved the link M1-V1 and wrote it to both   *)
(* stores, and the link is no longer active                                *)
C31_Witness ==
  \E p \in Procs :
    /\ call[p].op = "ingest"
    /\ call[p].outcome = "ok"
    /\ call[p].peer # Null
    /\ HistoryPeers(meterHistory, vehicleHistory, call[p].dto, call[p].hid)
         = {call[p].peer}
    /\ StatusPeers(meterStatus, vehicleStatus, call[p].dto) = {call[p].peer}
    /\ \A x \in deviceMapping : ~x.isActive

(* C32: dailyCumulative is never negative: after any sequence of ingests   *)
(* of readings with non-negative energy values, in any order of their      *)
(* timestamps, every dailyKwhConsumedAc and every dailyKwhDeliveredDc is   *)
(* at least 0.                                                             *)
C32_DailyNonNegative ==
  /\ \A r \in meterStatus : r.dailyKwhConsumedAc >= 0
  /\ \A r \in vehicleStatus : r.dailyKwhDeliveredDc >= 0

(* C33: no step clears the peer of a StatusRecord: a record with a         *)
(* non-null peer keeps a non-null peer through every ingest of its device, *)
(* also when the reading resolved no active link, and the peer changes     *)
(* only to the peer an ingest resolved or to the one setDeviceMapping      *)
(* writes.                                                                 *)
C33_PeerNeverCleared ==
  [][/\ \A r \in meterStatus :
          r.vehicleId # Null =>
            \E r2 \in meterStatus' :
              /\ r2.meterId = r.meterId
              /\ r2.vehicleId # Null
              /\ r2.vehicleId # r.vehicleId =>
                   \E p \in Procs :
                     \/ UpsertStepOf(p) /\ r2.vehicleId = call[p].peer
                     \/ call[p].op = "setMapping" /\ r2.vehicleId = call[p].vehicleId
     /\ \A r \in vehicleStatus :
          r.meterId # Null =>
            \E r2 \in vehicleStatus' :
              /\ r2.vehicleId = r.vehicleId
              /\ r2.meterId # Null
              /\ r2.meterId # r.meterId =>
                   \E p \in Procs :
                     \/ UpsertStepOf(p) /\ r2.meterId = call[p].peer
                     \/ call[p].op = "setMapping" /\ r2.meterId = call[p].meterId]_vars

(* An ingest has ended whose lookup resolved no link, after the link was   *)
(* deactivated, and the StatusRecord of its device still has its peer      *)
C33_Witness ==
  \E p \in Procs :
    /\ call[p].op = "ingest"
    /\ call[p].outcome = "ok"
    /\ call[p].peer = Null
    /\ \E x \in deviceMapping : ~x.isActive
    /\ \E peer \in StatusPeers(meterStatus, vehicleStatus, call[p].dto) : peer # Null

----------------------------------------------------------------------------
(* SpecClass: readings of one vehicle, charging and idle, below and at the *)
(* temperature threshold, and of one meter, ingested one after the other   *)

ClassDtos ==
  {d \in MeterDtos : /\ d.meterId = "M1" /\ d.voltage = 240
                     /\ d.kwhConsumedAc = 1 /\ d.timestamp \in {0, 1}}
  \cup
  {d \in VehicleDtos : /\ d.vehicleId = "V1"
                       /\ d.kwhDeliveredDc \in {0, 1} /\ d.timestamp \in {0, 1}}

ClassIngest ==
  /\ nextId <= MaxSeqReadings
  /\ \E dto \in ClassDtos :
       \E db \in IngestPolymorphic(DB, dto) : SetDB(db)
  /\ UNCHANGED <<call, calls, perf, history>>

NextClass == ClassIngest

SpecClass == Init /\ [][NextClass]_vars

----------------------------------------------------------------------------
(* SpecCharging: ingests that run to their end, and reads of the list of   *)
(* charging vehicles                                                       *)

(* StatusService.getChargingVehicles() at the instant now: the rows with   *)
(* chargingState 'charging', lowest soc first, in each order that ties     *)
(* allow; the query does not look at lastReadingAt                         *)
ChargingVehicles(vs, now) ==
  LET rows == {r \in vs : r.chargingState = "charging"}
      n == Cardinality(rows)
      orders == {q \in [1..n -> rows] :
                   /\ \A i, j \in 1..n : i # j => q[i] # q[j]
                   /\ \A i, j \in 1..n : i < j => q[i].soc <= q[j].soc}
  IN  {[called |-> TRUE, kind |-> "chargingVehicles", now |-> now,
        notFound |-> FALSE, vehicles |-> q] : q \in orders}

(* GET /v1/status/vehicles/charging *)
GetChargingVehicles ==
  /\ \E now \in StatusInstants : perf' \in ChargingVehicles(vehicleStatus, now)
  /\ UNCHANGED <<tables, call, calls, history>>

NextCharging ==
  \/ StatusIngest
  \/ GetChargingVehicles

SpecCharging == Init /\ [][NextCharging]_vars

(* C35: no vehicle in the list of charging vehicles is one for which       *)
(* getVehicleStatus at the same instant answers offline.                   *)
C35_ChargingListAgrees ==
  [][(perf' # perf /\ perf'.called /\ perf'.kind = "chargingVehicles") =>
       \A i \in 1..Len(perf'.vehicles) :
         \A a \in VehicleStatusAnswer(vehicleStatus, perf'.vehicles[i].vehicleId,
                                      perf'.now) :
           a.notFound \/ a.status.chargingState # "offline"]_vars

----------------------------------------------------------------------------
(* SpecOverview: getFleetOverview split at its queries, with ingests that  *)
(* run to their end between them                                           *)

(* The queries of getFleetOverview: the two of the first Promise.all, the  *)
(* four of the second, and the last one                                    *)
MeterQueries == {"totalMeters", "onlineMeters"}

VehicleQueries ==
  {"totalVehicles", "chargingVehicles", "vehiclesWithWarnings", "totalDc"}

EnergyQueries == {"totalAc"}

OverviewQueries == MeterQueries \cup VehicleQueries \cup EnergyQueries

(* The value one query of getFleetOverview yields on the tables *)
QueryValue(ms, vs, q, now) ==
  LET threshold == now - OFFLINE_THRESHOLD_MS
  IN  CASE q = "totalMeters" -> Cardinality(ms)
        [] q = "onlineMeters" ->
             Cardinality({r \in ms : GetTime(r.lastReadingAt) > threshold})
        [] q = "totalVehicles" -> Cardinality(vs)
        [] q = "chargingVehicles" ->
             Cardinality({r \in vs : r.chargingState = "charging"})
        [] q = "vehiclesWithWarnings" ->
             Cardinality({r \in vs : r.batteryTempWarning})
        [] q = "totalDc" ->
             SumOf({<<r.vehicleId, r.dailyKwhDeliveredDc>> : r \in vs})
        [] q = "totalAc" ->
             SumOf({<<r.meterId, r.dailyKwhConsumedAc>> : r \in ms})

(* The object getFleetOverview returns *)
OverviewResponse(got) ==
  [totalMeters |-> got["totalMeters"],
   onlineMeters |-> got["onlineMeters"],
   offlineMeters |-> got["totalMeters"] - got["onlineMeters"],
   totalVehicles |-> got["totalVehicles"],
   chargingVehicles |-> got["chargingVehicles"],
   idleVehicles |-> got["totalVehicles"] - got["chargingVehicles"],
   vehiclesWithWarnings |-> got["vehiclesWithWarnings"],
   totalDailyKwhConsumed |-> got["totalAc"],
   totalDailyKwhDelivered |-> got["totalDc"]]

(* The queries that are sent once the queries of pending have answered *)
NextQueries(answered) ==
  IF MeterQueries \ answered # {} THEN MeterQueries \ answered
  ELSE IF VehicleQueries \ answered # {} THEN VehicleQueries \ answered
  ELSE EnergyQueries \ answered

(* GET /v1/status/fleet: getFleetOverview is entered and fixes threshold *)
OverviewStart ==
  /\ perf = NoPerf \/ perf.called
  /\ \E now \in StatusInstants :
       perf' = [called |-> FALSE, kind |-> "fleetOverview", now |-> now,
                notFound |-> FALSE, answered |-> {},
                got |-> [q \in OverviewQueries |-> 0],
                response |-> OverviewResponse([q \in OverviewQueries |-> 0])]
  /\ UNCHANGED <<tables, call, calls, history>>

(* One of the queries in flight answers; after the last one the handler    *)
(* returns                                                                 *)
OverviewQuery ==
  /\ perf # NoPerf
  /\ ~perf.called
  /\ \E q \in NextQueries(perf.answered) :
       LET got == [perf.got EXCEPT ![q] = QueryValue(meterStatus, vehicleStatus,
                                                     q, perf.now)]
           answered == perf.answered \cup {q}
       IN  perf' = [perf EXCEPT !.got = got,
                                !.answered = answered,
                                !.called = (answered = OverviewQueries),
                                !.response = OverviewResponse(got)]
  /\ UNCHANGED <<tables, call, calls, history>>

NextOverview ==
  \/ StatusIngest
  \/ OverviewStart
  \/ OverviewQuery

SpecOverview == Init /\ [][NextOverview]_vars

(* C36: whatever ingests run between the queries of getFleetOverview, its  *)
(* result has 0 <= onlineMeters <= totalMeters and 0 <= chargingVehicles   *)
(* <= totalVehicles, so offlineMeters and idleVehicles are not negative.   *)
C36_CountsConsistent ==
  (perf.called /\ perf.kind = "fleetOverview") =>
    LET a == perf.response
    IN  /\ 0 <= a.onlineMeters /\ a.onlineMeters <= a.totalMeters
        /\ 0 <= a.chargingVehicles /\ a.chargingVehicles <= a.totalVehicles
        /\ a.offlineMeters >= 0
        /\ a.idleVehicles >= 0

----------------------------------------------------------------------------
(* SpecCommute: some readings ingested and a link set one after the other, *)
(* then two concurrent ingests for two different devices                   *)

(* The two concurrent readings: one hour, two meters and two vehicles *)
CommuteDtos ==
  {d \in MeterDtos : /\ d.voltage = 240 /\ d.timestamp = 1
                     /\ d.kwhConsumedAc \in {1, 2}
                     /\ (d.meterId = "M2" => d.kwhConsumedAc = 1)}
  \cup
  {d \in VehicleDtos : /\ d.batteryTemp = 30 /\ d.timestamp = 1
                       /\ d.kwhDeliveredDc \in {1, 2}
                       /\ (d.vehicleId = "V2" => d.kwhDeliveredDc = 1)}

(* Two requests for two different devices arrive *)
CommuteStart ==
  /\ calls = 0
  /\ \E a, b \in CommuteDtos :
       /\ DeviceOf(a) # DeviceOf(b)
       /\ call' = [p \in Procs |->
                     [Idle EXCEPT !.op = "ingest", !.pc = "lookup",
                                  !.outcome = "running",
                                  !.dto = IF p = 1 THEN a ELSE b]]
  /\ calls' = 2
  /\ base' = DB
  /\ UNCHANGED <<tables, perf, done, okCount>>

NextCommute ==
  \/ PriorIngest
  \/ LinkPriorMapping
  \/ CommuteStart
  \/ \E p \in Procs :
       \/ Lookup(p)
       \/ ColdAppend(p)
       \/ HotUpsert(p)

SpecCommute == Init /\ [][NextCommute]_vars

(* The history rows without their ids, and the status rows *)
StoresOf(mh, vh, ms, vs) ==
  [mh |-> Contents(mh), vh |-> Contents(vh), ms |-> ms, vs |-> vs]

(* What the stores can hold after ingesting a and then b, each from its    *)
(* first line to its last                                                  *)
SeqStores(db, a, b) ==
  UNION {{StoresOf(db2.mh, db2.vh, db2.ms, db2.vs) : db2 \in IngestPolymorphic(db1, b)}
           : db1 \in IngestPolymorphic(db, a)}

(* C37: two ingests for different devices commute: the two orders of       *)
(* applying them give the same HistoryRecords (ids aside) and the same     *)
(* StatusRecords, every interleaving of their steps ends in such a result, *)
(* and no step of an ingest changes the StatusRecord of another device.    *)
C37_DistinctDevicesCommute ==
  [][/\ \A p \in Procs :
          (call[p].op = "ingest" /\ call'[p] # call[p]) =>
            LET d == DeviceOf(call[p].dto)
            IN  /\ {r \in meterStatus' : r.meterId # d}
                     = {r \in meterStatus : r.meterId # d}
                /\ {r \in vehicleStatus' : r.vehicleId # d}
                     = {r \in vehicleStatus : r.vehicleId # d}
     /\ (\A p \in Procs : call'[p].op = "ingest" /\ call'[p].outcome = "ok") =>
          LET a == call'[1].dto
              b == call'[2].dto
              final == StoresOf(meterHistory', vehicleHistory',
                                meterStatus', vehicleStatus')
          IN  /\ SeqStores(base', a, b) = SeqStores(base', b, a)
              /\ final \in SeqStores(base', a, b)]_vars

(* Readings of the linked devices M1 and V1 were ingested concurrently on  *)
(* top of an earlier reading, the second caller appending first            *)
C37_Witness ==
  /\ \A p \in Procs : call[p].op = "ingest" /\ call[p].outcome = "ok"
  /\ call[1].dto.type = "meter" /\ call[1].dto.meterId = "M1"
  /\ call[2].dto.type = "vehicle" /\ call[2].dto.vehicleId = "V1"
  /\ call[2].hid < call[1].hid
  /\ call[1].peer = "V1" /\ call[2].peer = "M1"
  /\ base.mh # {}

(* Readings of the two meters M1 and M2 were ingested concurrently on top  *)
(* of an earlier reading of M1                                             *)
C37_WitnessSameType ==
  /\ \A p \in Procs : call[p].op = "ingest" /\ call[p].outcome = "ok"
  /\ call[1].dto.type = "meter" /\ call[2].dto.type = "meter"
  /\ base.mh # {}

(* C38: the consumed energy of every bucket of the trend of vehicle v is   *)
(* made of the meter rows of the bucket's hour that belong to the meter of *)
(* v's active link or carry v as peer, and of no other meter row; without  *)
(* an active link the rows of unrelated meters add nothing.                *)
C38_OnlyRelatedMeters ==
  (perf.called /\ perf.kind = "trend") =>
    LET b == perf.buckets
        linked == {x.meterId : x \in {y \in deviceMapping :
                                        y.vehicleId = perf.vehicleId /\ y.isActive}}
        related == {r \in meterHistory :
                      /\ perf.periodStart <= r.timestamp
                      /\ r.timestamp <= perf.periodEnd
                      /\ (r.meterId \in linked \/ r.vehicleId = perf.vehicleId)}
        HourOf(r) == (r.timestamp \div TicksPerHour) * TicksPerHour
    IN  \A i \in 1..Len(b) :
          b[i].kwhConsumedAc
            = 10000 * SumOf({<<r.id, r.kwhConsumedAc>> :
                               r \in {x \in related : HourOf(x) = b[i].hour}})

(* C39: for every vehicle that enters the warning and critical counts of   *)
(* getFleetEfficiency, the ratio totalDc / totalAc used there is the ratio *)
(* that getPerformance reports for that vehicle over the same window.      *)
C39_FleetRatioIsDeviceRatio ==
  (perf.called /\ perf.kind = "fleet") =>
    \A e \in EfficiencyBreakdown(DB, perf.periodStart, perf.periodEnd) :
      \A a \in PerformanceAnswers(DB, e.vehicleId, perf.periodEnd,
                                  perf.periodEnd - perf.periodStart, Null) :
        /\ ~a.notFound
        /\ LET r == RatioOf(a)
           IN  e.totalDc * r[2] = r[1] * e.totalAc

====
